---- MODULE Spec2Model ----
(***************************************************************************)
(* Model of Dashboard(1).py: the table location, header resolution,        *)
(* column renaming, filtering and period ordering of the sales dashboard.  *)
(*                                                                         *)
(* Text is modelled as TLA+ strings, read character by character with      *)
(* SubSeq.  The en dash of the source's patterns is written "~" here.      *)
(* Regular expressions are sequences of atoms run by a greedy backtracking *)
(* matcher (MatchAt, Search), as Python's re does for these patterns.      *)
(***************************************************************************)
EXTENDS Integers, Sequences, FiniteSets, TLC

VARIABLES pc,        \* position of the run within the component under study
          pcols,     \* period ordering: the two column labels being ordered
          skeys,     \* period ordering: the sort keys each view computed
          columns,   \* renaming: the raw column labels of the chosen table
          renamed,   \* renaming: what rename_columns returned
          raised,    \* renaming: the exception that ended the run, "" if none
          deduped,   \* renaming: the columns left by the duplicate removal
          table,     \* filtering: table_df, its sheet kind, labels, leading cells
          facets,    \* filtering: branch_list, product_list, months, years
          view,      \* filtering: the selections and what they leave visible
          bva,       \* filtering: what plot_budget_vs_actual aligned and charted
          chart,     \* views: what a monthly, ranking or monthwise view charted
          grid,      \* location: df_sheet, the rows of the selected sheet
          sheet,     \* location: the selected sheet's position and kind
          located,   \* location: the tables found and the one handed on
          all_data,  \* master PPT: the (label, data) entries handed in
          ppt,       \* master PPT: the loop's position and its local names
          slides,    \* master PPT: the chart slides added so far
          helper     \* helpers: a caller's table before and after the call

periodVars == <<pcols, skeys>>
renameVars == <<columns, renamed, raised, deduped>>
filterVars == <<table, facets, view, bva, chart>>
locateVars == <<grid, sheet, located>>
pptVars == <<all_data, ppt, slides>>
helperVars == <<helper>>
vars == <<pc, pcols, skeys, columns, renamed, raised, deduped, table, facets, view, bva, chart,
          grid, sheet, located, all_data, ppt, slides, helper>>

\* The variables of a component that a specification does not exercise
PeriodIdle == pcols = <<>> /\ skeys = <<>>
RenameIdle == columns = <<>> /\ renamed = <<>> /\ raised = "" /\ deduped = <<>>
FilterIdle == table = <<>> /\ facets = <<>> /\ view = <<>> /\ bva = <<>> /\ chart = <<>>
LocateIdle == grid = <<>> /\ sheet = <<>> /\ located = <<>>
PptIdle == all_data = <<>> /\ ppt = <<>> /\ slides = <<>>
HelperIdle == helper = <<>>

\* The element of a singleton.  The({e(x) : x \in {v}}) is e with x bound to
\* the value of v: v is evaluated once, however often e uses it (a local name
\* of the source assigned once and read many times).
The(S) == CHOOSE r \in S : TRUE

(***************************************************************************)
(* Characters and strings                                                  *)
(***************************************************************************)
ENDASH == "~"
LOWER == "abcdefghijklmnopqrstuvwxyz"
UPPER == "ABCDEFGHIJKLMNOPQRSTUVWXYZ"
DIGITS == "0123456789"

CharsOf(s) == {SubSeq(s, i, i) : i \in 1..Len(s)}
LowerLetters == CharsOf(LOWER)
UpperLetters == CharsOf(UPPER)
DigitChars == CharsOf(DIGITS)
WordChars == LowerLetters \cup UpperLetters \cup DigitChars \cup {"_"}
SpaceChars == {" "}

lowerOf == [c \in UpperLetters |->
              LET i == CHOOSE j \in 1..Len(UPPER) : SubSeq(UPPER, j, j) = c
              IN  SubSeq(LOWER, i, i)]
upperOf == [c \in LowerLetters |->
              LET i == CHOOSE j \in 1..Len(LOWER) : SubSeq(LOWER, j, j) = c
              IN  SubSeq(UPPER, i, i)]
digitOf == [c \in DigitChars |->
              (CHOOSE j \in 1..Len(DIGITS) : SubSeq(DIGITS, j, j) = c) - 1]

Ch(s, i) == SubSeq(s, i, i)
LowerCh(c) == IF c \in UpperLetters THEN lowerOf[c] ELSE c
UpperCh(c) == IF c \in LowerLetters THEN upperOf[c] ELSE c

RECURSIVE MapChars(_, _, _)
\* s with every character from position i on replaced by its image under f
\* (f is "lower" or "upper").
MapChars(s, i, f) ==
    IF i > Len(s) THEN ""
    ELSE (IF f = "lower" THEN LowerCh(Ch(s, i)) ELSE UpperCh(Ch(s, i)))
         \o MapChars(s, i + 1, f)

\* str.lower()
lower(s) == MapChars(s, 1, "lower")
\* str.upper()
upper(s) == MapChars(s, 1, "upper")
\* str.capitalize(): first character upper-cased, the rest lower-cased
capitalize(s) ==
    IF s = "" THEN "" ELSE UpperCh(Ch(s, 1)) \o lower(SubSeq(s, 2, Len(s)))

\* str.startswith(prefix)
startswith(s, prefix) ==
    Len(s) >= Len(prefix) /\ SubSeq(s, 1, Len(prefix)) = prefix

\* Python's "sub in s"
contains(s, sub) ==
    \E i \in 1..(Len(s) - Len(sub) + 1) : SubSeq(s, i, i + Len(sub) - 1) = sub

RECURSIVE replace(_, _, _)
\* str.replace(old, new) for a one-character old
replace(s, old, new) ==
    IF s = "" THEN ""
    ELSE (IF Ch(s, 1) = old THEN new ELSE Ch(s, 1))
         \o replace(SubSeq(s, 2, Len(s)), old, new)

RECURSIVE lstrip(_)
lstrip(s) == IF s # "" /\ Ch(s, 1) \in SpaceChars
             THEN lstrip(SubSeq(s, 2, Len(s))) ELSE s
RECURSIVE rstrip(_)
rstrip(s) == IF s # "" /\ Ch(s, Len(s)) \in SpaceChars
             THEN rstrip(SubSeq(s, 1, Len(s) - 1)) ELSE s
\* str.strip()
strip(s) == rstrip(lstrip(s))

\* int() of a string of decimal digits
RECURSIVE int(_)
int(s) == IF s = "" THEN 0
          ELSE 10 * int(SubSeq(s, 1, Len(s) - 1)) + digitOf[Ch(s, Len(s))]

\* The elements of a sequence
Range(q) == {q[i] : i \in 1..Len(q)}

\* Position of x in the sequence q, 0 when absent (list.index, 1-based here)
IndexOf(q, x) ==
    IF \E i \in 1..Len(q) : q[i] = x
    THEN CHOOSE i \in 1..Len(q) : q[i] = x /\ \A j \in 1..(i - 1) : q[j] # x
    ELSE 0

(***************************************************************************)
(* Regular expressions                                                     *)
(* An atom is  Cls(set, min, max): min..max characters of a set (greedy),  *)
(*             NotCls(set, min, max): the same for the complement,         *)
(*             Lit(text): the text itself,  WB: \b,  BOS: ^,               *)
(*             Alt(texts): the first of the texts that lets the rest match.*)
(* With the flag ic (re.IGNORECASE) letters match in either case.          *)
(***************************************************************************)
INF == 999
\* The characters of a string, as a tuple
Chars(s) == [i \in 1..Len(s) |-> SubSeq(s, i, i)]
Cls(set, min, max) == [k |-> "cls", set |-> set, neg |-> FALSE, min |-> min, max |-> max, s |-> <<>>]
NotCls(set, min, max) == [k |-> "cls", set |-> set, neg |-> TRUE, min |-> min, max |-> max, s |-> <<>>]
Lit(text) == [k |-> "lit", set |-> {}, neg |-> FALSE, min |-> 0, max |-> 0, s |-> Chars(text)]
WB == [k |-> "wb", set |-> {}, neg |-> FALSE, min |-> 0, max |-> 0, s |-> <<>>]
BOS == [k |-> "bos", set |-> {}, neg |-> FALSE, min |-> 0, max |-> 0, s |-> <<>>]
Alt(texts) == [k |-> "alt", set |-> {}, neg |-> FALSE, min |-> 0, max |-> 0, s |-> <<>>,
               alts |-> [i \in 1..Len(texts) |-> Chars(texts[i])]]

\* In the matcher t is Chars of the subject string
IsWordAt(t, i) == i >= 1 /\ i <= Len(t) /\ t[i] \in WordChars
\* \b before position p: exactly one of the neighbours is a word character
AtWordBoundary(t, p) == IsWordAt(t, p - 1) # IsWordAt(t, p)

ChMatches(c, a, ic) ==
    LET in == c \in a.set \/ (ic /\ (LowerCh(c) \in a.set \/ UpperCh(c) \in a.set))
    IN  IF a.neg THEN ~in ELSE in

LitMatches(t, p, text, ic) ==
    /\ p + Len(text) - 1 <= Len(t)
    /\ \A i \in 1..Len(text) :
          IF ic THEN LowerCh(t[p + i - 1]) = LowerCh(text[i]) ELSE t[p + i - 1] = text[i]

RECURSIVE RunLen(_, _, _, _, _)
\* how many characters from p on match the class atom a, at most cap
RunLen(t, p, a, ic, cap) ==
    IF cap = 0 \/ p > Len(t) \/ ~ChMatches(t[p], a, ic) THEN 0
    ELSE 1 + RunLen(t, p + 1, a, ic, cap - 1)

RECURSIVE MatchAt(_, _, _, _, _)
RECURSIVE TryRep(_, _, _, _, _, _)
RECURSIVE TryAlt(_, _, _, _, _, _)
\* p in front of the match r of the later atoms, <<>> when r is no match
Prepend(p, r) == The({IF m = <<>> THEN <<>> ELSE <<p>> \o m : m \in {r}})

\* The match of atoms k.. of re at position p of t: the positions at which
\* each of these atoms starts followed by the position after the match, or
\* <<>> when there is none.  Greedy, backtracking from the longest repeat.
MatchAt(re, ic, t, k, p) ==
    IF k > Len(re) THEN <<p>>
    ELSE CASE re[k].k = "wb"  -> IF AtWordBoundary(t, p)
                                 THEN Prepend(p, MatchAt(re, ic, t, k + 1, p)) ELSE <<>>
           [] re[k].k = "bos" -> IF p = 1
                                 THEN Prepend(p, MatchAt(re, ic, t, k + 1, p)) ELSE <<>>
           [] re[k].k = "lit" -> IF LitMatches(t, p, re[k].s, ic)
                                 THEN Prepend(p, MatchAt(re, ic, t, k + 1, p + Len(re[k].s)))
                                 ELSE <<>>
           [] re[k].k = "alt" -> TryAlt(re, ic, t, k, p, 1)
           [] re[k].k = "cls" -> The({TryRep(re, ic, t, k, p, n) :
                                        n \in {RunLen(t, p, re[k], ic, re[k].max)}})

TryRep(re, ic, t, k, p, n) ==
    IF n < re[k].min THEN <<>>
    ELSE The({IF r # <<>> THEN <<p>> \o r ELSE TryRep(re, ic, t, k, p, n - 1) :
                r \in {MatchAt(re, ic, t, k + 1, p + n)}})

\* the alternatives of an Alt atom from the j-th on, in the order written
TryAlt(re, ic, t, k, p, j) ==
    IF j > Len(re[k].alts) THEN <<>>
    ELSE IF LitMatches(t, p, re[k].alts[j], ic)
    THEN The({IF r # <<>> THEN <<p>> \o r ELSE TryAlt(re, ic, t, k, p, j + 1) :
              r \in {MatchAt(re, ic, t, k + 1, p + Len(re[k].alts[j]))}})
    ELSE TryAlt(re, ic, t, k, p, j + 1)

RECURSIVE SearchFrom(_, _, _, _)
\* re.search from position p on: the leftmost match
SearchFrom(re, ic, t, p) ==
    IF p > Len(t) + 1 THEN <<>>
    ELSE The({IF m # <<>> THEN m ELSE SearchFrom(re, ic, t, p + 1) :
                m \in {MatchAt(re, ic, t, 1, p)}})

\* re.search(re, s)
Search(re, ic, s) ==
    The({SearchFrom(a[1], ic, a[2], 1) : a \in {<<re, Chars(s)>>}})
\* The text matched by atoms i..j of a match m (a group), m.group(0) for 1..Len(re)
Group(s, m, i, j) == SubSeq(s, m[i], m[j + 1] - 1)
MatchEnd(m) == m[Len(m)]

(***************************************************************************)
(* Period ordering: the sort keys of the three views that order periods    *)
(***************************************************************************)
NumYears == 3
MonthNames == <<"Jan", "Feb", "Mar", "Apr", "May", "Jun",
                "Jul", "Aug", "Sep", "Oct", "Nov", "Dec">>
Months == {MonthNames[i] : i \in 1..Len(MonthNames)}
\* two-digit years "23", "24", ...
Years == {"2" \o Ch(DIGITS, 3 + i) : i \in 1..NumYears}

\* (\w{3,})[-~](\d{2})
MonthYearRe == <<Cls(WordChars, 3, INF), Cls({"-", ENDASH}, 1, 1), Cls(DigitChars, 2, 2)>>
\* (\w{3,})[-~\s]*(\d{2})
MonthYearLooseRe == <<Cls(WordChars, 3, INF), Cls({"-", ENDASH} \cup SpaceChars, 0, INF),
                      Cls(DigitChars, 2, 2)>>
\* [-~](\d{2})
DashYearRe == <<Cls({"-", ENDASH}, 1, 1), Cls(DigitChars, 2, 2)>>
\* [-~](\d{2})\b
DashYearWbRe == <<Cls({"-", ENDASH}, 1, 1), Cls(DigitChars, 2, 2), WB>>
\* ^(\w{3})
MonthOnlyRe == <<BOS, Cls(WordChars, 3, 3)>>
\* \b(apr|may|jun|jul|aug|sep|oct|nov|dec|jan|feb|mar)\b
MonthTokenRe == <<WB, Alt(<<"apr", "may", "jun", "jul", "aug", "sep",
                            "oct", "nov", "dec", "jan", "feb", "mar">>), WB>>

MetricPrefixes == <<"Gr", "Ach", "Act", "Budget", "LY">>
\* re.sub(r'^(Gr[-\s]*|Ach[-\s]*|Act[-\s]*|Budget[-\s]*|LY[-\s]*)', '', s, IGNORECASE)
StripMetricPrefix(s) ==
    LET hits == {i \in 1..Len(MetricPrefixes) :
                   MatchAt(<<BOS, Lit(MetricPrefixes[i]), Cls({"-"} \cup SpaceChars, 0, INF)>>,
                           TRUE, Chars(s), 1, 1) # <<>>}
    IN  IF hits = {} THEN s
        ELSE LET i == CHOOSE j \in hits : \A h \in hits : j <= h
                 m == MatchAt(<<BOS, Lit(MetricPrefixes[i]), Cls({"-"} \cup SpaceChars, 0, INF)>>,
                              TRUE, Chars(s), 1, 1)
             IN  SubSeq(s, MatchEnd(m), Len(s))

\* extract_month_year(col_name)
extract_month_year(col_name) ==
    LET col_str == StripMetricPrefix(strip(col_name))
        m == Search(MonthYearLooseRe, TRUE, col_str)
    IN  IF m # <<>>
        THEN capitalize(Group(col_str, m, 1, 1)) \o "-" \o Group(col_str, m, 3, 3)
        ELSE col_str

\* lexicographic order of the (fiscal_year, month_idx) tuples
KeyLess(a, b) == a[1] < b[1] \/ (a[1] = b[1] /\ a[2] < b[2])

fiscal_month_order == <<"Apr", "May", "Jun", "Jul", "Aug", "Sep",
                        "Oct", "Nov", "Dec", "Jan", "Feb", "Mar">>
\* the month alternatives of the patterns, in the order the source lists them
fiscal_month_order_lower == [i \in 1..Len(fiscal_month_order) |-> lower(fiscal_month_order[i])]

\* plot_budget_vs_actual: the 'Month' value of a melted column name
BvaMonthLabel(x) ==
    LET m == Search(MonthYearRe, TRUE, x)
    IN  IF m # <<>> THEN Group(x, m, 1, 3) ELSE x

\* plot_budget_vs_actual.get_fiscal_sort_key, on the row's 'Month' value
\* (list.index is 0-based in the source, IndexOf is 1-based)
get_fiscal_sort_key(Month) ==
    LET mo == Search(MonthOnlyRe, FALSE, Month)
        month == IF mo # <<>> THEN Group(Month, mo, 2, 2) ELSE ""
        ym == Search(DashYearRe, FALSE, Month)
        year == IF ym # <<>> THEN Group(Month, ym, 2, 2) ELSE "00"
        month_idx == IndexOf(fiscal_month_order, month) - 1
    IN  IF month_idx < 0 THEN <<0, 99>>
        ELSE <<IF month_idx < 9 THEN int(year) ELSE int(year) + 1, month_idx>>

\* plot_monthly_comparison: month_order = {'Apr': 1, ..., 'Mar': 12}
month_order(month) ==
    IF IndexOf(fiscal_month_order, month) = 0 THEN 99
    ELSE IndexOf(fiscal_month_order, month)

\* a plausible slip: the Budget-vs-Actual formula (year + 1) used here
get_sort_key_next_year(month_str) ==
    LET m == Search(MonthYearRe, TRUE, month_str)
    IN  IF m # <<>>
        THEN LET month_idx == month_order(capitalize(Group(month_str, m, 1, 1)))
                 year_int == int(Group(month_str, m, 3, 3))
             IN  <<IF month_idx >= 10 THEN year_int + 1 ELSE year_int, month_idx>>
        ELSE <<0, 99>>

\* plot_monthly_comparison.get_sort_key
get_sort_key(month_str) ==
    LET m == Search(MonthYearRe, TRUE, month_str)
    IN  IF m # <<>>
        THEN LET month_idx == month_order(capitalize(Group(month_str, m, 1, 1)))
                 year_int == int(Group(month_str, m, 3, 3))
             IN  <<IF month_idx >= 10 THEN year_int - 1 ELSE year_int, month_idx>>
        ELSE <<0, 99>>

\* plot_branch_monthwise.get_sort_key (and plot_product_monthwise's copy)
monthwise_get_sort_key(col_name) ==
    LET col == lower(col_name)
        mm == Search(MonthTokenRe, TRUE, col)
        ym == Search(DashYearWbRe, FALSE, col)
        cap == IF mm # <<>> THEN capitalize(Group(col, mm, 2, 2)) ELSE ""
        month_idx == IF IndexOf(fiscal_month_order, cap) # 0
                     THEN IndexOf(fiscal_month_order, cap) - 1 ELSE 99
        year == IF ym # <<>> THEN int(Group(col, ym, 2, 2)) ELSE 0
    IN  <<year, month_idx>>

\* The monthly Act column of a period, as the tables label it
PeriodColumn(mon, yr) == "Act-" \o mon \o "-" \o yr
PeriodColumns == {PeriodColumn(mn, y) : mn \in Months, y \in Years}

InitPeriod ==
    /\ pc = "period"
    /\ pcols \in PeriodColumns \X PeriodColumns
    /\ skeys = <<>>
    /\ RenameIdle /\ FilterIdle /\ LocateIdle /\ PptIdle /\ HelperIdle

\* Each view computes the sort keys of the two columns
SortPeriods ==
    /\ pc = "period"
    /\ skeys = <<>>
    /\ skeys' = [bva     |-> [i \in 1..2 |-> get_fiscal_sort_key(BvaMonthLabel(pcols[i]))],
                 monthly |-> [i \in 1..2 |-> get_sort_key(extract_month_year(pcols[i]))],
                 monthwise |-> [i \in 1..2 |-> monthwise_get_sort_key(pcols[i])]]
    /\ pc' = "sorted"
    /\ UNCHANGED <<pcols, renameVars, filterVars, locateVars, pptVars, helperVars>>

NextPeriod == SortPeriods
SpecPeriod == InitPeriod /\ [][NextPeriod]_vars

(***************************************************************************)
(* Column renaming: rename_columns                                         *)
(***************************************************************************)
Separators == {"-", ENDASH} \cup SpaceChars
\* YTD[-~\s]*\d{2}[-~\s]*\d{2}\s*\([^)]*\)  after the literal that opens it
YtdTail == <<Cls(Separators, 0, INF), Cls(DigitChars, 2, 2), Cls(Separators, 0, INF),
             Cls(DigitChars, 2, 2), Cls(SpaceChars, 0, INF), Lit("("),
             NotCls({")"}, 0, INF), Lit(")")>>
\* (YTD...\([^)]*\))\s*Act
YtdActRe == <<Lit("YTD")>> \o YtdTail \o <<Cls(SpaceChars, 0, INF), Lit("Act")>>
\* (Gr-YTD...\([^)]*\))
YtdGrRe == <<Lit("Gr-YTD")>> \o YtdTail
\* (Ach-YTD...\([^)]*\))
YtdAchRe == <<Lit("Ach-YTD")>> \o YtdTail
\* (YTD...\([^)]*\))\s*Ach
YtdAchAltRe == <<Lit("YTD")>> \o YtdTail \o <<Cls(SpaceChars, 0, INF), Lit("Ach")>>
\* (\b\w{3,})[\s-]*(\d{2})
MonthlyRe == <<WB, Cls(WordChars, 3, INF), Cls({"-"} \cup SpaceChars, 0, INF),
               Cls(DigitChars, 2, 2)>>
\* the atoms of group 1 of the YTD patterns: the opening literal and YtdTail
YtdGroupLast == 1 + Len(YtdTail)

\* Position of the first occurrence of sub in s at or after p, 0 when absent
FindFrom(s, sub, p) ==
    IF \E i \in p..(Len(s) - Len(sub) + 1) : SubSeq(s, i, i + Len(sub) - 1) = sub
    THEN CHOOSE i \in p..(Len(s) - Len(sub) + 1) :
            /\ SubSeq(s, i, i + Len(sub) - 1) = sub
            /\ \A j \in p..(i - 1) : SubSeq(s, j, j + Len(sub) - 1) # sub
    ELSE 0

\* s.split(sep)[1]: the text between the first and the second occurrence of
\* sep; [ok |-> FALSE] is the IndexError of a split that found no sep
SplitSecond(s, sep) ==
    LET i == FindFrom(s, sep, 1)
    IN  IF i = 0 THEN [ok |-> FALSE, text |-> ""]
        ELSE LET from == i + Len(sep)
                 j == FindFrom(s, sep, from)
             IN  [ok |-> TRUE,
                  text |-> IF j = 0 THEN SubSeq(s, from, Len(s)) ELSE SubSeq(s, from, j - 1)]

\* col.strip().replace(",", "").replace("~", "-")
CleanLabel(col) == replace(replace(strip(col), ",", ""), ENDASH, "-")

ytd_act_match(col_clean) == Search(YtdActRe, TRUE, col_clean)
ytd_gr_match(col_clean) == Search(YtdGrRe, TRUE, col_clean)
ytd_ach_match(col_clean) == Search(YtdAchRe, TRUE, col_clean)
ytd_ach_alt_match(col_clean) == Search(YtdAchAltRe, TRUE, col_clean)
monthly_match(col_clean) == Search(MonthlyRe, FALSE, col_clean)

\* a plausible slip: the matched label is kept and "Act" is not moved in front
YtdActNameUnmoved(ytd_base) == ytd_base \o " Act"
\* f"Act-{ytd_base}"
YtdActName(ytd_base) == "Act-" \o ytd_base

\* The finding of an iteration in which a YTD rule fired: the label it appends
YtdRule(label) == [rule |-> "ytd", label |-> label, raised |-> "",
                   month |-> "", year |-> "", gr |-> FALSE, ach |-> FALSE]
\* m.group(1).replace("~", "-") of a YTD match m
YtdBase(col_clean, m) == replace(Group(col_clean, m, 1, YtdGroupLast), ENDASH, "-")

\* What one iteration of the loop finds in a column label, before it looks at
\* the carried prev_month/prev_year: the YTD rule that fired with the label it
\* appends (rule "ytd"), or the monthly match and the gr/ach prefix tests of
\* the remaining branch (rule "monthly").  None is modelled as "".
ScanYtdAchAlt(col, col_clean) ==
    The({IF alt # <<>> THEN YtdRule("Ach-" \o YtdBase(col_clean, alt))
         ELSE The({[rule |-> "monthly", label |-> col, raised |-> "",
                    month |-> IF mm # <<>> THEN capitalize(Group(col_clean, mm, 2, 2))
                              ELSE "",
                    year |-> IF mm # <<>> THEN Group(col_clean, mm, 4, 4) ELSE "",
                    gr |-> startswith(lower(col_clean), "gr"),
                    ach |-> startswith(lower(col_clean), "ach")] :
                   mm \in {monthly_match(col_clean)}}) :
         alt \in {ytd_ach_alt_match(col_clean)}})
ScanYtdAch(col, col_clean) ==
    The({IF ach # <<>> THEN YtdRule(YtdBase(col_clean, ach))
         ELSE ScanYtdAchAlt(col, col_clean) :
         ach \in {ytd_ach_match(col_clean)}})
ScanYtdGr(col, col_clean) ==
    The({IF gr # <<>>
         THEN The({IF part.ok THEN YtdRule("Gr-" \o part.text)
                   ELSE [YtdRule("") EXCEPT !.raised = "IndexError"] :
                   part \in {SplitSecond(YtdBase(col_clean, gr), "Gr-")}})
         ELSE ScanYtdAch(col, col_clean) :
         gr \in {ytd_gr_match(col_clean)}})
ScanYtdAct(col, col_clean) ==
    The({IF act # <<>> THEN YtdRule(YtdActName(YtdBase(col_clean, act)))
         ELSE ScanYtdGr(col, col_clean) :
         act \in {ytd_act_match(col_clean)}})
\* the if/elif chain of the loop body, from its first test on
ScanLabel(col) == The({ScanYtdAct(col, col_clean) : col_clean \in {CleanLabel(col)}})

MaxCols == 3
\* Raw header labels as the sheets write them
RawLabels == {"Branch", "Growth", "Budget-Apr-24", "LY~may~24", "Gr", "Ach", "Gr-Jun-24",
              "YTD-25-26 (Apr to Jun) Act", "YTD-24-25 (Apr to Mar) Act",
              "YTD-25-26 (Apr to Jun) Ach", "Gr-YTD-25-26 (Apr to Jun)",
              "gr-ytd-25-26 (Apr to Jun)"}
\* ScanLabel of the raw labels, computed once
ScannedRaw == [col \in RawLabels |-> ScanLabel(col)]
Scanned(col) == IF col \in RawLabels THEN ScannedRaw[col] ELSE ScanLabel(col)

\* The state of the loop before its first column
RenameStart == [renamed |-> <<>>, prev_month |-> "", prev_year |-> "", raised |-> ""]

\* The name the monthly branch appends for col, given what the iteration
\* found (sc) and the month and year pm, py now carried
MonthlyName(sc, pm, py, col) ==
    IF sc.gr /\ pm # "" /\ py # "" THEN "Gr - " \o pm \o "-" \o py
    ELSE IF sc.ach /\ pm # "" /\ py # "" THEN "Ach - " \o pm \o "-" \o py
    ELSE col

\* One iteration of the loop over the columns
RenameStep(st, col) ==
    IF st.raised # "" THEN st
    ELSE The({IF sc.raised # "" THEN [st EXCEPT !.raised = sc.raised]
              ELSE IF sc.rule = "ytd" THEN [st EXCEPT !.renamed = Append(@, sc.label)]
              ELSE The({[st EXCEPT !.renamed = Append(@, MonthlyName(sc, prev[1], prev[2], col)),
                                   !.prev_month = prev[1], !.prev_year = prev[2]] :
                        prev \in {IF sc.month # "" THEN <<sc.month, sc.year>>
                                  ELSE <<st.prev_month, st.prev_year>>}}) :
              sc \in {Scanned(col)}})

RECURSIVE RenameLoop(_, _, _)
RenameLoop(st, cols, i) ==
    IF i > Len(cols) THEN st
    ELSE The({RenameLoop(st2, cols, i + 1) : st2 \in {RenameStep(st, cols[i])}})

\* rename_columns(columns): the loop's final state; .renamed is the list
\* returned when .raised = ""
rename_columns(cols) == RenameLoop(RenameStart, cols, 1)

ColumnLists == UNION {[1..n -> RawLabels] : n \in 1..MaxCols}

InitRename ==
    /\ pc = "raw"
    /\ columns \in ColumnLists
    /\ renamed = <<>>
    /\ raised = ""
    /\ deduped = <<>>
    /\ PeriodIdle /\ FilterIdle /\ LocateIdle /\ PptIdle /\ HelperIdle

\* table_df.columns = rename_columns(table_df.columns)
RenameColumns ==
    /\ pc = "raw"
    /\ \E r \in {rename_columns(columns)} :
           /\ raised' = r.raised
           /\ renamed' = IF r.raised = "" THEN r.renamed ELSE <<>>
           /\ pc' = IF r.raised = "" THEN "renamed" ELSE "crashed"
    /\ UNCHANGED <<columns, deduped, periodVars, filterVars, locateVars, pptVars, helperVars>>

\* table_df.columns.duplicated(keep="last"): a plausible slip that marks every
\* occurrence of a label but its last
duplicated_keep_last(labels) ==
    [i \in 1..Len(labels) |-> \E j \in (i + 1)..Len(labels) : labels[j] = labels[i]]
\* table_df.columns.duplicated(): position i is marked when its label already
\* stands at an earlier position
duplicated(labels) ==
    [i \in 1..Len(labels) |-> \E j \in 1..(i - 1) : labels[j] = labels[i]]

RECURSIVE Unmarked(_, _)
\* table_df.loc[:, ~mask]: the positions the mask leaves, in column order
Unmarked(mask, i) ==
    IF i > Len(mask) THEN <<>>
    ELSE (IF mask[i] THEN <<>> ELSE <<i>>) \o Unmarked(mask, i + 1)

\* The duplicate removal after the renaming: kept holds the positions of the
\* columns table_df keeps (each with the cells of that position), labels
\* their labels, warning whether the st.warning was shown
DropDuplicates ==
    /\ pc = "renamed"
    /\ \E mask \in {duplicated(renamed)} :
           \E kept \in {IF TRUE \in Range(mask) THEN Unmarked(mask, 1)
                         ELSE [i \in 1..Len(renamed) |-> i]} :
               deduped' = [kept |-> kept,
                           labels |-> [n \in 1..Len(kept) |-> renamed[kept[n]]],
                           warning |-> TRUE \in Range(mask)]
    /\ pc' = "deduped"
    /\ UNCHANGED <<columns, renamed, raised, periodVars, filterVars, locateVars, pptVars, helperVars>>

NextRename == RenameColumns \/ DropDuplicates
SpecRename == InitRename /\ [][NextRename]_vars

(***************************************************************************)
(* Filtering: the dimension lists, the month and year facets, the row and  *)
(* column filters and the Budget-vs-Actual alignment                       *)
(***************************************************************************)
\* The characters of the labels in code-point order (the en dash is last)
CodeOrder == " (),-0123456789ABCDEFGHIJKLMNOPQRSTUVWXYZ_abcdefghijklmnopqrstuvwxyz~"
codeOf == [c \in CharsOf(CodeOrder) |->
             CHOOSE i \in 1..Len(CodeOrder) : SubSeq(CodeOrder, i, i) = c]

RECURSIVE StrLess(_, _)
\* a < b on Python strings
StrLess(a, b) ==
    IF a = "" THEN b # ""
    ELSE IF b = "" THEN FALSE
    ELSE IF Ch(a, 1) = Ch(b, 1) THEN StrLess(SubSeq(a, 2, Len(a)), SubSeq(b, 2, Len(b)))
    ELSE codeOf[Ch(a, 1)] < codeOf[Ch(b, 1)]

RECURSIVE sorted(_)
\* sorted(S) of a set of strings
sorted(S) ==
    IF S = {} THEN <<>>
    ELSE The({<<m>> \o sorted(S \ {m}) :
              m \in {x \in S : \A y \in S : x = y \/ StrLess(x, y)}})

RECURSIVE JoinSpace(_, _)
\* ' '.join(cols), from the i-th label on
JoinSpace(cols, i) ==
    IF i > Len(cols) THEN ""
    ELSE IF i = Len(cols) THEN cols[i]
    ELSE cols[i] \o " " \o JoinSpace(cols, i + 1)

RECURSIVE FindAllFrom(_, _, _, _)
\* re.findall: the matches from left to right, each search starting where the
\* match before it ended
FindAllFrom(re, ic, t, p) ==
    The({IF m = <<>> THEN <<>>
         ELSE <<m>> \o FindAllFrom(re, ic, t,
                                   IF MatchEnd(m) > m[1] THEN MatchEnd(m) ELSE m[1] + 1) :
         m \in {SearchFrom(re, ic, t, p)}})
\* the texts that atoms i..j matched in each match of re.findall(re, s)
FindAll(re, ic, s, i, j) ==
    {Group(s, m, i, j) : m \in Range(FindAllFrom(re, ic, Chars(s), 1))}

\* \b(?:jan|feb|mar|apr|may|jun|jul|aug|sep|oct|nov|dec)\b
MonthFacetRe == <<WB, Alt(<<"jan", "feb", "mar", "apr", "may", "jun",
                            "jul", "aug", "sep", "oct", "nov", "dec">>), WB>>

\* A cell of the table: None, or the text make_jsonly_serializable left
NullCell == [na |-> TRUE, s |-> ""]
Cell(text) == [na |-> FALSE, s |-> text]
\* Series.astype(str) of a cell
astype_str(cell) == IF cell.na THEN "None" ELSE cell.s

\* extract_unique_values(df, first_col, exclude_terms): exclude_terms is not
\* read by the body
extract_unique_values(first_col, exclude_terms) ==
    sorted({strip(astype_str(first_col[i])) :
              i \in {j \in 1..Len(first_col) : ~first_col[j].na}})

\* months = sorted(set(re.findall(..., ' '.join(table_df.columns), IGNORECASE)))
months_of(cols) == sorted(FindAll(MonthFacetRe, TRUE, JoinSpace(cols, 1), 2, 2))
\* years = sorted(set(re.findall(r'[-~](\d{2})\b', ' '.join(table_df.columns))))
years_of(cols) == sorted(FindAll(DashYearWbRe, FALSE, JoinSpace(cols, 1), 2, 2))

SELECT_ALL == "Select All"
\* ["Select All"] + values
Options(values) == {SELECT_ALL} \cup Range(values)
\* values if selected == "Select All" else [selected] if selected else []
Selected(selected, values) ==
    IF selected = SELECT_ALL THEN values
    ELSE IF selected # "" THEN <<selected>> ELSE <<>>

\* any(f"-{y}" in col_str for y in selected_years) if selected_years else True
year_match(col_str, selected_years) ==
    IF selected_years # <<>>
    THEN \E i \in 1..Len(selected_years) : contains(col_str, "-" \o selected_years[i])
    ELSE TRUE
\* any(m.lower() in col_str for m in selected_months)
month_match(col_str, selected_months) ==
    \E i \in 1..Len(selected_months) : contains(col_str, lower(selected_months[i]))

\* a plausible slip: a column passes when its month or its year is selected
column_filter_either(col, selected_months, selected_years) ==
    The({IF contains(col_str, "ytd") THEN year_match(col_str, selected_years)
         ELSE month_match(col_str, selected_months) \/ year_match(col_str, selected_years) :
         col_str \in {replace(replace(lower(col), ",", ""), ENDASH, "-")}})
\* column_filter(col)
column_filter(col, selected_months, selected_years) ==
    The({IF contains(col_str, "ytd") THEN year_match(col_str, selected_years)
         ELSE month_match(col_str, selected_months) /\ year_match(col_str, selected_years) :
         col_str \in {replace(replace(lower(col), ",", ""), ENDASH, "-")}})

\* The positions of the rows the branch/product selection keeps
FilteredRows(tab, selected_dims) ==
    SelectSeq([i \in 1..Len(tab.lead) |-> i],
              LAMBDA i : \/ tab.kind = "other"
                         \/ selected_dims = <<>>
                         \/ astype_str(tab.lead[i]) \in Range(selected_dims))

\* [col for col in table_df.columns if column_filter(col)]
VisualCols(cols, selected_months, selected_years) ==
    SelectSeq(cols, LAMBDA col : column_filter(col, selected_months, selected_years))

\* (m.group(1), m.group(2)) of re.search(r'(\w{3,})[-~](\d{2})', col, IGNORECASE),
\* <<>> when there is no match
BvaPeriod(col) ==
    The({IF m = <<>> THEN <<>> ELSE <<Group(col, m, 1, 1), Group(col, m, 3, 3)>> :
         m \in {Search(MonthYearRe, TRUE, col)}})
\* set((m.group(1), m.group(2)) for m in ... if m)
BvaPeriods(cols) == {BvaPeriod(cols[i]) : i \in 1..Len(cols)} \ {<<>>}
\* rf'\b{month}[-~]{year}\b'
PeriodColRe(q) == <<WB, Lit(q[1]), Cls({"-", ENDASH}, 1, 1), Lit(q[2]), WB>>

RECURSIVE ColsOfPeriods(_, _, _)
\* the columns appended while the loop runs over common_months in the given
\* order, from its i-th period on
ColsOfPeriods(order, cols, i) ==
    IF i > Len(order) THEN <<>>
    ELSE SelectSeq(cols, LAMBDA col : Search(PeriodColRe(order[i]), TRUE, col) # <<>>)
         \o ColsOfPeriods(order, cols, i + 1)

\* budget_cols / act_cols: the monthly columns of a metric that pass the filter
MetricCols(cols, metric, selected_months, selected_years) ==
    SelectSeq(cols, LAMBDA col : /\ startswith(lower(col), metric)
                                 /\ ~contains(lower(col), "ytd")
                                 /\ column_filter(col, selected_months, selected_years))

\* The orders in which the iteration over a set may visit its elements
Orderings(S) == {q \in [1..Cardinality(S) -> S] : Range(q) = S}

MaxFilterCols == 4
\* Column labels as rename_columns leaves them
FilterPool == <<"Budget-Apr-24", "Act-Apr-24", "Budget-May-24", "Act-May-24", "Act-Jun-24",
                "act-apr-24", "LY~May~25", "Gr - Apr-24", "Act-YTD-24-25 (Apr to Jun)", "">>
\* table1_header of the sheet kind, the label of the leading column
LeadLabel(kind) == IF kind = "branch" THEN "Sales in MT" ELSE "Sales in Tonage"
\* The sheet kinds (is_branch_analysis, is_product_analysis or neither) with
\* the cells of the leading column
SheetCases ==
    {[kind |-> "branch", lead |-> <<Cell("North"), Cell("South"), Cell("Total Sales")>>],
     [kind |-> "product", lead |-> <<Cell("Pipes"), NullCell, Cell("Fittings"), Cell("Pipes")>>],
     [kind |-> "other", lead |-> <<Cell("Pipes"), NullCell>>]}

RECURSIVE PoolColumns(_, _)
\* the labels of FilterPool at the positions in I, from position i on
PoolColumns(I, i) ==
    IF i > Len(FilterPool) THEN <<>>
    ELSE (IF i \in I THEN <<FilterPool[i]>> ELSE <<>>) \o PoolColumns(I, i + 1)

\* table_df: the sheet kind, the column labels, the cells of the leading
\* column and, row by row, the cells of the columns after it
Table(kind, labels, lead, cells) ==
    [kind |-> kind, columns |-> labels, lead |-> lead, cells |-> cells]
\* Tables of every choice of labels; each cell after the leading column
\* reads "10"
Tables ==
    {Table(sc.kind, <<LeadLabel(sc.kind)>> \o PoolColumns(I, 1), sc.lead,
           [r \in 1..Len(sc.lead) |-> [c \in 1..Cardinality(I) |-> Cell("10")]]) :
       sc \in SheetCases,
       I \in {J \in SUBSET (1..Len(FilterPool)) : Cardinality(J) <= MaxFilterCols}}

InitFilter ==
    /\ pc = "table"
    /\ table \in Tables
    /\ facets = <<>> /\ view = <<>> /\ bva = <<>> /\ chart = <<>>
    /\ PeriodIdle /\ RenameIdle /\ LocateIdle /\ PptIdle /\ HelperIdle

\* branch_list, product_list, months, years of a table
FacetsOf(tab) ==
    [branch_list  |-> IF tab.kind = "branch"
                      THEN extract_unique_values(tab.lead, {}) ELSE <<>>,
     product_list |-> IF tab.kind = "product"
                      THEN extract_unique_values(tab.lead, {}) ELSE <<>>,
     months |-> months_of(tab.columns),
     years  |-> years_of(tab.columns)]

\* branch_list, product_list, months, years
BuildFacets ==
    /\ pc = "table"
    /\ facets' = FacetsOf(table)
    /\ pc' = "facets"
    /\ UNCHANGED <<table, view, bva, chart, periodVars, renameVars, locateVars, pptVars, helperVars>>

\* The selections with what they select, filtered_df (rows), visual_cols and
\* the columns of display_df
ViewOf(tab, fac, selected_month, selected_year, selected_dim) ==
    The({The({[selected_month |-> selected_month,
               selected_year |-> selected_year,
               selected_dim |-> selected_dim,
               selected_months |-> sel[1],
               selected_years |-> sel[2],
               selected_dims |-> sel[3],
               rows |-> FilteredRows(tab, sel[3]),
               visual_cols |-> visual_cols,
               display_cols |-> <<tab.columns[1]>> \o visual_cols] :
              visual_cols \in {VisualCols(tab.columns, sel[1], sel[2])}}) :
         sel \in {<<Selected(selected_month, fac.months),
                    Selected(selected_year, fac.years),
                    Selected(selected_dim, IF tab.kind = "branch" THEN fac.branch_list
                                           ELSE fac.product_list)>>}})

\* The sidebar selections, filtered_df, visual_cols and display_df
ApplyFilters ==
    /\ pc = "facets"
    /\ \E selected_month \in Options(facets.months),
          selected_year \in Options(facets.years),
          selected_dim \in IF table.kind = "branch" THEN Options(facets.branch_list)
                           ELSE IF table.kind = "product" THEN Options(facets.product_list)
                           ELSE {""} :
         view' = ViewOf(table, facets, selected_month, selected_year, selected_dim)
    /\ pc' = "filtered"
    /\ UNCHANGED <<table, facets, bva, chart, periodVars, renameVars, locateVars, pptVars, helperVars>>

\* The labels of a region sheet's table after rename_columns
ViewColumns == <<"Sales in MT", "Budget-Apr-24", "Act-Apr-24", "Act-May-25",
                 "Act-YTD-25-26 (Apr to Mar)">>
\* Its rows as the sheet writes them, all cells filled
ViewLead == <<Cell("North"), Cell("South"), Cell("Total Sales")>>
ViewCells == <<<<Cell("1"), Cell("2"), Cell("4"), Cell("8")>>,
               <<Cell("16"), Cell("32"), Cell("64"), Cell("1,024")>>,
               <<Cell("17"), Cell("34"), Cell("68"), Cell("1,032")>>>>
\* What a cell holds that holds no number: nothing, or text
Holes == {NullCell, Cell("n/a")}
\* The rows of the tables that are ranked: the leading values of a region
\* sheet and of a product sheet, and what a YTD Act cell may hold
RankNames(kind) ==
    IF kind = "branch"
    THEN <<"North", "South", "East", "West", "Central", "Coastal", "Export", "Inland">>
    ELSE <<"Pipes", "Fittings", "Valves", "Tanks", "Sheets", "Cables", "Pumps", "Taps">>
RankCells == {Cell("10"), Cell("20")}
\* the row of totals that ends a table
TotalRow == [lead |-> Cell("Total Sales"), cell |-> Cell("1,024")]
\* The labels and the cells of the tables, for what is computed of each once
KnownLabels == Range(FilterPool) \cup Range(ViewColumns)
KnownCells == {Cell("10"), TotalRow.cell} \cup Holes \cup RankCells
              \cup UNION {Range(ViewCells[r]) : r \in 1..Len(ViewCells)}

\* A cell after numeric coercion: NaN or a number
NaN == [nan |-> TRUE, v |-> 0]
\* pd.to_numeric(series.astype(str).str.replace(',', ''), errors='coerce') of
\* one cell: the sheets' numbers are written in digits and commas
to_numeric(cell) ==
    The({IF t # "" /\ CharsOf(t) \subseteq DigitChars
         THEN [nan |-> FALSE, v |-> int(t)] ELSE NaN :
         t \in {replace(astype_str(cell), ",", "")}})
\* to_numeric of the known cells, computed once
NumericOf == [cell \in KnownCells |-> to_numeric(cell)]
\* The coerced cell of row r of tab in the column labelled col
Coerced(tab, r, col) == NumericOf[tab.cells[r][IndexOf(tab.columns, col) - 1]]

\* chart_data.dropna() of chart_data = filtered_df[[first_col] + cols] after
\* the coercion: the rows left have a leading value and a number in every column
DropNa(tab, rows, cols) ==
    SelectSeq(rows, LAMBDA r : /\ ~tab.lead[r].na
                               /\ \A i \in 1..Len(cols) : ~Coerced(tab, r, cols[i]).nan)

RECURSIVE ColumnSum(_, _, _, _)
\* Series.sum() of the column col over the rows from the i-th on; NaN is skipped
ColumnSum(tab, rows, col, i) ==
    IF i > Len(rows) THEN 0
    ELSE The({IF x.nan THEN 0 ELSE x.v : x \in {Coerced(tab, rows[i], col)}})
         + ColumnSum(tab, rows, col, i + 1)
RECURSIVE ColumnsSum(_, _, _, _)
\* chart_data[cols].sum().sum(), from the i-th column on
ColumnsSum(tab, rows, cols, i) ==
    IF i > Len(cols) THEN 0
    ELSE ColumnSum(tab, rows, cols[i], 1) + ColumnsSum(tab, rows, cols, i + 1)

\* 'Budget' if 'budget' in str(x).lower() else 'Act'
BvaMetric(col) == IF contains(lower(col), "budget") THEN "Budget" ELSE "Act"
\* The group key of a melted column: its 'Month' and 'Metric'
BvaKey(col) == <<BvaMonthLabel(col), BvaMetric(col)>>
\* \bact\b.*(?:apr|...|mar)[-\s]*{year} of plot_branch_monthwise
ActMonthYearRe(year) ==
    <<WB, Lit("act"), WB, NotCls({}, 0, INF), Alt(fiscal_month_order_lower),
      Cls({"-"} \cup SpaceChars, 0, INF), Lit(year)>>
\* clean_col_names of plot_branch_monthwise: 'Mon-YY' of a column with a
\* month and a dash-year
CleanColName(col) ==
    The({IF mm[1] # <<>> /\ mm[2] # <<>>
         THEN capitalize(Group(col, mm[1], 2, 2)) \o "-" \o Group(col, mm[2], 2, 2)
         ELSE col :
         mm \in {<<Search(MonthTokenRe, TRUE, col), Search(DashYearWbRe, FALSE, col)>>}})
\* the years the labels of the tables can give
KnownYears == {"23", "24", "25", "26"}
\* What the views compute of a column label alone: the Budget-vs-Actual
\* group key, extract_month_year, the monthwise sort key and clean name, and
\* the years for which the monthwise pattern matches
LabelFactsOf(col) ==
    [bva_key |-> BvaKey(col),
     month_year |-> extract_month_year(col),
     sort_key |-> monthwise_get_sort_key(col),
     clean |-> CleanColName(col),
     act_years |-> {year \in KnownYears :
                      Search(ActMonthYearRe(year), TRUE, lower(col)) # <<>>}]
\* LabelFactsOf of the known labels, computed once
LabelFacts == [col \in KnownLabels |-> LabelFactsOf(col)]
\* chart_data_melt.groupby(['Month', 'Metric'])['Value'].sum()
BvaAgg(tab, rows, cols) ==
    {[Month |-> k[1], Metric |-> k[2],
      Value |-> ColumnsSum(tab, rows,
                           SelectSeq(cols, LAMBDA col : LabelFacts[col].bva_key = k), 1)] :
       k \in {LabelFacts[cols[i]].bva_key : i \in 1..Len(cols)}}
\* pie_data[pie_data["Value"] > 0]
PieData(tab, rows, budget_cols, act_cols) ==
    {slice \in {[Metric |-> "Budget", Value |-> ColumnsSum(tab, rows, budget_cols, 1)],
                 [Metric |-> "Act", Value |-> ColumnsSum(tab, rows, act_cols, 1)]} :
       slice.Value > 0}

VisualTypes == {"Bar Chart", "Pie Chart", "Line Chart"}
\* What plot_budget_vs_actual charts: the rows left by dropna and the
\* aggregated values (agg), or why there is no chart
BvaChart(outcome, visual_type, chart_rows, agg) ==
    [outcome |-> outcome, visual_type |-> visual_type, chart_rows |-> chart_rows, agg |-> agg]
\* The result of plot_budget_vs_actual when it returns before chart_data is
\* built, and the columns it has chosen when it goes on
BvaResult(outcome, budget_cols, act_cols, common_months, order) ==
    [budget_cols |-> budget_cols, act_cols |-> act_cols,
     common_months |-> common_months,
     selected_budget_cols |-> ColsOfPeriods(order, budget_cols, 1),
     selected_act_cols |-> ColsOfPeriods(order, act_cols, 1)]
    @@ BvaChart(outcome, "", <<>>, {})
\* plot_budget_vs_actual from chart_data on: coercion, dropna and the
\* aggregation of the chosen visualization
BvaCharted(tab, visual_type, chosen, chart_rows) ==
    (IF chart_rows = <<>> THEN BvaChart("no_numeric_data", visual_type, chart_rows, {})
     ELSE IF visual_type = "Pie Chart"
     THEN The({BvaChart(IF pie = {} THEN "no_pie_data" ELSE "pie", visual_type, chart_rows, pie) :
               pie \in {PieData(tab, chart_rows, chosen.selected_budget_cols,
                                chosen.selected_act_cols)}})
     ELSE BvaChart("chart", visual_type, chart_rows,
                   BvaAgg(tab, chart_rows,
                          chosen.selected_budget_cols \o chosen.selected_act_cols)))
    @@ chosen

\* plot_budget_vs_actual(tab, visual_type)
PlotBudgetVsActual ==
    /\ pc = "filtered"
    /\ \E budget_cols \in {MetricCols(table.columns, "budget",
                                      view.selected_months, view.selected_years)},
          act_cols \in {MetricCols(table.columns, "act",
                                   view.selected_months, view.selected_years)} :
         IF budget_cols = <<>> \/ act_cols = <<>>
         THEN bva' = BvaResult("no_columns", budget_cols, act_cols, {}, <<>>)
         ELSE \E common_months \in {BvaPeriods(budget_cols) \cap BvaPeriods(act_cols)} :
                IF common_months = {}
                THEN bva' = BvaResult("no_common_months", budget_cols, act_cols, {}, <<>>)
                ELSE \E order \in Orderings(common_months), visual_type \in VisualTypes :
                       \E chosen \in {BvaResult("chart", budget_cols, act_cols,
                                                 common_months, order)} :
                         bva' = BvaCharted(table, visual_type, chosen,
                                           DropNa(table, view.rows,
                                                  chosen.selected_budget_cols
                                                    \o chosen.selected_act_cols))
    /\ pc' = "plotted"
    /\ UNCHANGED <<table, facets, view, chart, periodVars, renameVars, locateVars, pptVars, helperVars>>

NextFilter == BuildFacets \/ ApplyFilters \/ PlotBudgetVsActual
SpecFilter == InitFilter /\ [][NextFilter]_vars

(***************************************************************************)
(* The views: what the monthly, ranking and monthwise views chart of a     *)
(* table with numbers, empty cells and text in its cells                   *)
(***************************************************************************)
\* What a view charts: its entries, or why there is none.  An entry names
\* the row and the column of table_df its value was read from.
Chart(name, label, outcome, columns_used, entries) ==
    [view |-> name, label |-> label, outcome |-> outcome,
     columns_used |-> columns_used, entries |-> entries]

\* plot_cols of plot_monthly_comparison(tab, label, visual_type)
PlotCols(cols, label, selected_months, selected_years) ==
    SelectSeq(cols, LAMBDA col :
        /\ startswith(replace(lower(col), ",", ""), lower(replace(label, ",", "")))
        /\ ~contains(lower(col), "ytd")
        /\ column_filter(col, selected_months, selected_years))
\* chart_data.melt(...).dropna() with 'Month' mapped by extract_month_year:
\* one entry for every cell with a leading value and a number
MeltedEntries(tab, rows, cols) ==
    {[row |-> e[1], column |-> e[2], Month |-> LabelFacts[e[2]].month_year,
      Value |-> Coerced(tab, e[1], e[2]).v] :
       e \in {x \in Range(rows) \X Range(cols) :
                 ~tab.lead[x[1]].na /\ ~Coerced(tab, x[1], x[2]).nan}}

\* the labels plot_monthly_comparison is called with
MonthlyLabels == {"Budget", "LY", "Act", "Gr", "Ach"}
\* plot_monthly_comparison(tab, label, visual_type)
PlotMonthlyComparison ==
    /\ pc = "filtered"
    /\ \E label \in MonthlyLabels :
         \E plot_cols \in {PlotCols(table.columns, label,
                                     view.selected_months, view.selected_years)} :
           IF plot_cols = <<>>
           THEN chart' = Chart("monthly", label, "no_columns", plot_cols, {})
           ELSE \E entries \in {MeltedEntries(table, view.rows, plot_cols)} :
                  chart' = Chart("monthly", label,
                                 IF entries = {} THEN "no_numeric_data" ELSE "chart",
                                 plot_cols, entries)
    /\ pc' = "charted"
    /\ UNCHANGED <<table, facets, view, bva, periodVars, renameVars, locateVars, pptVars, helperVars>>

BRANCH_EXCLUDE_TERMS == {"CHN Total", "ERD SALES", "North Total", "WEST SALES",
                         "GROUP COMPANIES"}
\* ^(?:TOTAL SALES|GRAND TOTAL|OVERALL TOTAL)
TotalPrefixes == {"TOTAL SALES", "GRAND TOTAL", "OVERALL TOTAL"}
\* regions_df: the rows of table_df whose leading cell holds no excluded term
\* and does not start with a total prefix (letter case ignored; a null
\* leading cell stays, na=False)
IsRegion(cell) ==
    \/ cell.na
    \/ /\ \A term \in BRANCH_EXCLUDE_TERMS : ~contains(lower(cell.s), lower(term))
       /\ \A term \in TotalPrefixes : ~startswith(lower(cell.s), lower(term))
\* the leading cells of the tables
LeadCells == Range(ViewLead) \cup UNION {Range(sc.lead) : sc \in SheetCases}
             \cup UNION {{Cell(RankNames(kind)[i]) : i \in 1..Len(RankNames(kind))} :
                       kind \in {"branch", "product"}}
\* the leading cells of the tables that pass them, computed once
Regions == {cell \in LeadCells : IsRegion(cell)}
RegionRows(tab) ==
    SelectSeq([i \in 1..Len(tab.lead) |-> i], LAMBDA r : tab.lead[r] \in Regions)

\* exclude_terms of plot_product_performance
PRODUCT_EXCLUDE_TERMS == {"Total", "TOTAL", "Grand", "GRAND", "Total Sales"}
\* products_df: the rows of table_df whose leading cell holds no excluded
\* term (letter case ignored; a null leading cell stays, na=False)
IsProduct(cell) ==
    \/ cell.na
    \/ \A term \in PRODUCT_EXCLUDE_TERMS : ~contains(lower(cell.s), lower(term))
Products == {cell \in LeadCells : IsProduct(cell)}
ProductRows(tab) ==
    SelectSeq([i \in 1..Len(tab.lead) |-> i], LAMBDA r : tab.lead[r] \in Products)

\* the first column that is "Act-YTD-25-26 (Apr to Mar)" or matches
\* YTD[-~\s]*\d{2}[-~\s]*\d{2}\s*\([^)]*\)\s*Act; "" when there is none
YtdActCol(cols) ==
    The({IF found = <<>> THEN "" ELSE found[1] :
         found \in {SelectSeq(cols, LAMBDA col :
                        \/ strip(col) = "Act-YTD-25-26 (Apr to Mar)"
                        \/ ytd_act_match(strip(col)) # <<>>)}})
\* clean_regions_df: Branch and Performance of the rows with a leading value
\* and a number in the YTD Act column
RankedEntries(tab, rows, col) ==
    {[row |-> r, column |-> col, Branch |-> tab.lead[r].s,
      Performance |-> Coerced(tab, r, col).v] :
       r \in {x \in Range(rows) : ~tab.lead[x].na /\ ~Coerced(tab, x, col).nan}}

\* the entries of the greatest Performance
Greatest(entries) == {e \in entries : \A f \in entries : f.Performance <= e.Performance}
RECURSIVE SortedDescending(_)
\* regions_df.sort_values(by=ytd_act_col, ascending=False): the row orders the
\* sort may return.  No kind is given, so the sort is the default quicksort,
\* which is not stable: rows of equal value come in any order.
SortedDescending(entries) ==
    IF entries = {} THEN {<<>>}
    ELSE UNION {{<<e.row>> \o q : q \in SortedDescending(entries \ {e})} :
                  e \in Greatest(entries)}
\* df.head(n)
head(q, n) == SubSeq(q, 1, IF Len(q) < n THEN Len(q) ELSE n)
\* a plausible slip: the rows from the (n+1)-th on
tail_from(q, n) == SubSeq(q, n + 1, Len(q))
\* df.tail(n)
tail(q, n) == SubSeq(q, (IF Len(q) < n THEN 0 ELSE Len(q) - n) + 1, Len(q))
\* The sorted frame of a performance view, by the rows of table_df it holds,
\* with its top_5 and bottom_5
Ranking(ranking) ==
    [ranking |-> ranking, top_5 |-> head(ranking, 5), bottom_5 |-> tail(ranking, 5)]
\* What a performance view charts of the rows its filters keep (rows), from
\* the YTD Act column found on
Performance(name, tab, rows, ytd_act_col, ranking) ==
    IF \A r \in Range(rows) : tab.lead[r].na \/ tab.cells[r][IndexOf(tab.columns, ytd_act_col) - 1].na
    THEN Chart(name, "", "no_data", <<ytd_act_col>>, {})
    ELSE IF ranking = <<>>
    THEN Chart(name, "", "no_numeric_data", <<ytd_act_col>>, {})
    ELSE Ranking(ranking)
         @@ Chart(name, "", "chart", <<ytd_act_col>>, RankedEntries(tab, rows, ytd_act_col))

\* plot_branch_performance(tab, visual_type)
PlotBranchPerformance ==
    /\ pc = "filtered"
    /\ IF table.kind # "branch"
       THEN chart' = Chart("branch_performance", "", "not_branch", <<>>, {})
       ELSE \E ytd_act_col \in {YtdActCol(table.columns)} :
              IF ytd_act_col = ""
              THEN chart' = Chart("branch_performance", "", "no_columns", <<>>, {})
              ELSE \E ranking \in SortedDescending(
                                     RankedEntries(table, RegionRows(table), ytd_act_col)) :
                     chart' = Performance("branch_performance", table, RegionRows(table),
                                          ytd_act_col, ranking)
    /\ pc' = "charted"
    /\ UNCHANGED <<table, facets, view, bva, periodVars, renameVars, locateVars, pptVars, helperVars>>

\* plot_product_performance(tab, visual_type)
PlotProductPerformance ==
    /\ pc = "filtered"
    /\ IF table.kind # "product"
       THEN chart' = Chart("product_performance", "", "not_product", <<>>, {})
       ELSE \E ytd_act_col \in {YtdActCol(table.columns)} :
              IF ytd_act_col = ""
              THEN chart' = Chart("product_performance", "", "no_columns", <<>>, {})
              ELSE \E ranking \in SortedDescending(
                                     RankedEntries(table, ProductRows(table), ytd_act_col)) :
                     chart' = Performance("product_performance", table, ProductRows(table),
                                          ytd_act_col, ranking)
    /\ pc' = "charted"
    /\ UNCHANGED <<table, facets, view, bva, periodVars, renameVars, locateVars, pptVars, helperVars>>

RECURSIVE ActColsOf(_, _, _, _)
\* act_cols of plot_branch_monthwise: for every column, for every year of
\* years, the column once more when it matches the year and is not YTD
ActColsOf(cols, years, i, j) ==
    IF i > Len(cols) THEN <<>>
    ELSE IF j > Len(years) THEN ActColsOf(cols, years, i + 1, 1)
    ELSE (IF /\ years[j] \in LabelFacts[cols[i]].act_years
             /\ ~contains(lower(cols[i]), "ytd")
          THEN <<cols[i]>> ELSE <<>>) \o ActColsOf(cols, years, i, j + 1)
RECURSIVE SortedByKey(_, _)
\* sorted(act_cols, key=get_sort_key) of the first n columns: stable
SortedByKey(cols, n) ==
    IF n = 0 THEN <<>>
    ELSE The({SelectSeq(q, LAMBDA c : ~KeyLess(LabelFacts[cols[n]].sort_key,
                                                LabelFacts[c].sort_key))
              \o <<cols[n]>>
              \o SelectSeq(q, LAMBDA c : KeyLess(LabelFacts[cols[n]].sort_key,
                                                 LabelFacts[c].sort_key)) :
              q \in {SortedByKey(cols, n - 1)}})
\* monthwise_data.dropna().melt(): one entry for every cell of the rows that
\* have a leading value and a number in every column
MonthwiseEntries(tab, rows, cols) ==
    {[row |-> e[1], column |-> e[2], Month |-> LabelFacts[e[2]].clean,
      Value |-> Coerced(tab, e[1], e[2]).v] :
       e \in Range(DropNa(tab, rows, cols)) \X Range(cols)}

\* monthwise_data.columns = [first_col] + clean_col_names holds a name twice:
\* two of the sorted Act columns have the same clean name
TwinNames(cols) ==
    \E i, j \in 1..Len(cols) : i < j /\ LabelFacts[cols[i]].clean = LabelFacts[cols[j]].clean
\* plot_branch_monthwise(tab, visual_type).  When a clean name stands twice,
\* monthwise_data[col] is a DataFrame, which has no .str: the loop of
\* pd.to_numeric raises AttributeError, no handler is between it and the
\* run, and the run ends there.
PlotBranchMonthwise ==
    /\ pc = "filtered"
    /\ IF table.kind # "branch"
       THEN /\ chart' = Chart("branch_monthwise", "", "not_branch", <<>>, {})
            /\ pc' = "charted"
       ELSE \E act_cols \in {ActColsOf(table.columns, facets.years, 1, 1)} :
              IF act_cols = <<>>
              THEN /\ chart' = Chart("branch_monthwise", "", "no_columns", <<>>, {})
                   /\ pc' = "charted"
              ELSE \E act_cols_sorted \in {SortedByKey(act_cols, Len(act_cols))} :
                     IF TwinNames(act_cols_sorted)
                     THEN /\ chart' = Chart("branch_monthwise", "", "AttributeError",
                                            act_cols_sorted, {})
                          /\ pc' = "crashed"
                     ELSE \E entries \in {MonthwiseEntries(table, RegionRows(table),
                                                           act_cols_sorted)} :
                            /\ chart' = Chart("branch_monthwise", "",
                                              IF entries = {} THEN "no_numeric_data"
                                              ELSE "chart",
                                              act_cols_sorted, entries)
                            /\ pc' = "charted"
    /\ UNCHANGED <<table, facets, view, bva, periodVars, renameVars, locateVars, pptVars, helperVars>>

MaxHoles == 1
\* The cell positions <<row, column>> of the table
CellPositions == (1..Len(ViewCells)) \X (1..Len(ViewCells[1]))
\* The tables in which at most MaxHoles cells hold no number
ViewTables ==
    {Table("branch", ViewColumns, ViewLead,
           [r \in 1..Len(ViewCells) |->
              [c \in 1..Len(ViewCells[1]) |->
                 IF <<r, c>> \in DOMAIN h THEN h[<<r, c>>] ELSE ViewCells[r][c]]]) :
       h \in UNION {[P -> Holes] : P \in {Q \in SUBSET CellPositions :
                                             Cardinality(Q) <= MaxHoles}}}

\* A region sheet that writes the Act column of one month in two letter
\* cases; rename_columns leaves both labels as they are and they are not
\* duplicates of each other
TwinTable ==
    Table("branch", <<"Sales in MT", "Act-Apr-24", "act-apr-24">>, ViewLead,
          [r \in 1..Len(ViewLead) |-> <<Cell("10"), Cell("10")>>])

InitViews ==
    /\ pc = "table"
    /\ table \in ViewTables \cup {TwinTable}
    /\ facets = <<>> /\ view = <<>> /\ bva = <<>> /\ chart = <<>>
    /\ PeriodIdle /\ RenameIdle /\ LocateIdle /\ PptIdle /\ HelperIdle

NextViews ==
    \/ BuildFacets \/ ApplyFilters \/ PlotBudgetVsActual
    \/ PlotMonthlyComparison \/ PlotBranchPerformance \/ PlotBranchMonthwise
SpecViews == InitViews /\ [][NextViews]_vars

MaxRankRows == 6
\* The tables that are ranked: up to MaxRankRows rows and the row of totals;
\* every YTD Act cell holds one of two numbers, but for at most one cell
\* that holds no number
RankTables ==
    {Table(kind, <<LeadLabel(kind), "Act-YTD-25-26 (Apr to Mar)">>,
           [r \in 1..(n + 1) |-> IF r <= n THEN Cell(RankNames(kind)[r]) ELSE TotalRow.lead],
           [r \in 1..(n + 1) |-> <<IF r > n THEN TotalRow.cell
                                    ELSE IF r \in DOMAIN h THEN h[r] ELSE cells[r]>>]) :
       kind \in {"branch", "product"},
       n \in 0..MaxRankRows,
       cells \in [1..MaxRankRows -> RankCells],
       h \in UNION {[P -> Holes] : P \in {Q \in SUBSET (1..MaxRankRows) :
                                              Cardinality(Q) <= 1}}}

\* The performance views read table_df alone; they start from the selections
\* the sidebar shows first ("Select All")
InitRank ==
    /\ pc = "filtered"
    /\ table \in RankTables
    /\ facets = FacetsOf(table)
    /\ view = ViewOf(table, facets, SELECT_ALL, SELECT_ALL, SELECT_ALL)
    /\ bva = <<>> /\ chart = <<>>
    /\ PeriodIdle /\ RenameIdle /\ LocateIdle /\ PptIdle /\ HelperIdle

NextRank == PlotBranchPerformance \/ PlotProductPerformance
SpecRank == InitRank /\ [][NextRank]_vars

(***************************************************************************)
(* Table location and header resolution                                    *)
(***************************************************************************)
NONE == 0 - 1
\* \bsales\s*in\s*mt\b
MtAnchorRe == <<WB, Lit("sales"), Cls(SpaceChars, 0, INF), Lit("in"),
                Cls(SpaceChars, 0, INF), Lit("mt"), WB>>
\* \bsales\s*in\s*(value|tonnage|tonage)\b
ValueAnchorRe == <<WB, Lit("sales"), Cls(SpaceChars, 0, INF), Lit("in"),
                   Cls(SpaceChars, 0, INF), Alt(<<"value", "tonnage", "tonage">>), WB>>
\* \b(?:budget|ly|act|gr|ach)\b
MetricKeywordRe == <<WB, Alt(<<"budget", "ly", "act", "gr", "ach">>), WB>>
\* the terms of find_table_end
TotalTerms == {"TOTAL SALES", "GRAND TOTAL", "OVERALL TOTAL"}
\* min(5, len(table)): the rows the header scan reads
HeaderScanRows == 5

\* The rows a sheet is made of, by name, with their cells
RowCells ==
    [mt     |-> <<Cell("SALES IN MT"), NullCell, NullCell>>,
     value  |-> <<Cell("Sales in Value"), NullCell, NullCell>>,
     header |-> <<Cell("Branch"), Cell("Budget-Apr-24"), Cell("Act-Apr-24")>>,
     data   |-> <<Cell("North"), Cell("10"), Cell("12")>>,
     total  |-> <<Cell("TOTAL SALES"), Cell("10"), Cell("12")>>,
     blank  |-> <<NullCell, NullCell, NullCell>>]
RowNames == DOMAIN RowCells

\* ' '.join(str(cell) for cell in row if pd.notna(cell))
RowText(cells) ==
    JoinSpace(SelectSeq([i \in 1..Len(cells) |-> IF cells[i].na THEN "" ELSE cells[i].s],
                        LAMBDA s : s # ""), 1)
\* ' '.join(row.astype(str).str.lower().tolist()): a null cell reads "nan"
RowTextLower(cells) ==
    JoinSpace([i \in 1..Len(cells) |-> IF cells[i].na THEN "nan" ELSE lower(cells[i].s)], 1)

\* What the scans test on a row
RowFactsOf(cells) ==
    [blank   |-> \A i \in 1..Len(cells) : cells[i].na,
     mt      |-> Search(MtAnchorRe, TRUE, RowText(cells)) # <<>>,
     value   |-> Search(ValueAnchorRe, TRUE, RowText(cells)) # <<>>,
     keyword |-> Search(MetricKeywordRe, TRUE, RowText(cells)) # <<>>,
     total   |-> \E term \in TotalTerms : contains(upper(RowText(cells)), term),
     lower   |-> RowTextLower(cells)]
\* RowFactsOf of the named rows, computed once
RowFacts == [name \in RowNames |-> RowFactsOf(RowCells[name])]

RECURSIVE FirstSheetScan(_, _, _, _)
\* The first sheet's scan for table1_start and table2_start, from row i on
FirstSheetScan(g, i, table1_start, table2_start) ==
    IF i >= Len(g) THEN <<table1_start, table2_start>>
    ELSE IF RowFacts[g[i + 1]].mt /\ table1_start = NONE
    THEN FirstSheetScan(g, i + 1, i, table2_start)
    ELSE IF RowFacts[g[i + 1]].value /\ table1_start # NONE /\ table2_start = NONE
    THEN FirstSheetScan(g, i + 1, table1_start, i)
    ELSE FirstSheetScan(g, i + 1, table1_start, table2_start)

RECURSIVE ExtractTablesFrom(_, _, _, _, _, _)
\* extract_tables(df, table1_header, table2_header), from row i on
ExtractTablesFrom(g, table1_header, table2_header, i, table1_idx, table2_idx) ==
    IF i >= Len(g) THEN <<table1_idx, table2_idx>>
    ELSE IF table1_idx = NONE /\ contains(RowFacts[g[i + 1]].lower, lower(table1_header))
    THEN ExtractTablesFrom(g, table1_header, table2_header, i + 1, i, table2_idx)
    ELSE IF /\ table2_idx = NONE
            /\ contains(RowFacts[g[i + 1]].lower, lower(table2_header))
            /\ i > (IF table1_idx = NONE THEN 0 ELSE table1_idx)
    THEN ExtractTablesFrom(g, table1_header, table2_header, i + 1, table1_idx, i)
    ELSE ExtractTablesFrom(g, table1_header, table2_header, i + 1, table1_idx, table2_idx)
extract_tables(g, table1_header, table2_header) ==
    ExtractTablesFrom(g, table1_header, table2_header, 0, NONE, NONE)

RECURSIVE find_table_end(_, _)
\* find_table_end(df, start_idx)
find_table_end(g, i) ==
    IF i >= Len(g) THEN Len(g)
    ELSE IF RowFacts[g[i + 1]].total THEN i + 1
    ELSE find_table_end(g, i + 1)

Min(a, b) == IF a < b THEN a ELSE b

\* df.iloc[start:end].dropna(how='all'): the sheet rows (numbered from 0)
\* that make up the region
Region(g, start, end) ==
    SelectSeq([j \in 1..(end - start) |-> start + j - 1],
              LAMBDA i : ~RowFacts[g[i + 1]].blank)

\* a plausible slip: the header scan reads every row of the region
ScanLimitWhole(region) == Len(region)
\* range(min(5, len(table)))
ScanLimit(region) == Min(HeaderScanRows, Len(region))

RECURSIVE HeaderScan(_, _, _, _)
\* The first row of the region, from its i-th on and before limit, that holds
\* a metric keyword; NONE when there is none
HeaderScan(g, region, i, limit) ==
    IF i >= limit THEN NONE
    ELSE IF RowFacts[g[region[i + 1] + 1]].keyword THEN i
    ELSE HeaderScan(g, region, i + 1, limit)

\* What the run leaves: how it ended, the table starts found, the table ends
\* computed (NONE for an end the run did not compute), the table chosen, the
\* region's rows, the header's index in the region, the rows handed on for
\* display and whether the table goes on to rename_columns
Outcome(outcome, starts, ends, choice, region, header_row_idx, handed, canonicalized) ==
    [outcome |-> outcome, table1_start |-> starts[1], table2_start |-> starts[2],
     table1_end |-> ends[1], table2_end |-> ends[2],
     table_choice |-> choice, region |-> region, header_row_idx |-> header_row_idx,
     handed |-> handed, canonicalized |-> canonicalized]

\* First sheet: header resolution of the chosen table
FirstSheetTable(g, starts, ends, choice, region) ==
    IF region = <<>> THEN Outcome("empty", starts, ends, choice, region, NONE, <<>>, FALSE)
    ELSE The({IF h = NONE
              THEN Outcome("header_not_found", starts, ends, choice, region, NONE, region, FALSE)
              ELSE Outcome(IF h + 1 < Len(region) THEN "table" ELSE "no_data",
                           starts, ends, choice, region, h,
                           SubSeq(region, h + 2, Len(region)), FALSE) :
              h \in {HeaderScan(g, region, 0, ScanLimit(region))}})

\* Later sheets: the first row of the chosen table is its header
LaterSheetTable(starts, ends, choice, region) ==
    IF region = <<>> THEN Outcome("table", starts, ends, choice, region, NONE, <<>>, TRUE)
    ELSE Outcome("table", starts, ends, choice, region, 0, SubSeq(region, 2, Len(region)), TRUE)

MaxRows == 6
\* Sheets without a total row, long enough for the header scan to stop short
Grids == UNION {[1..n -> RowNames \ {"total"}] : n \in 0..MaxRows}
MaxRegionRows == 5
\* Shorter sheets of every kind of row, total rows among them
TerminatedGrids == UNION {[1..n -> RowNames] : n \in 0..MaxRegionRows}
\* The selected sheet: its position in the workbook and whether its name
\* makes it a region wise analysis
Sheets == {[index |-> 0, branch |-> FALSE], [index |-> 1, branch |-> TRUE],
           [index |-> 5, branch |-> TRUE]}

InitLocate ==
    /\ pc = "sheet"
    /\ grid \in Grids
    /\ sheet \in Sheets
    /\ located = <<>>
    /\ PeriodIdle /\ RenameIdle /\ FilterIdle /\ PptIdle /\ HelperIdle

\* table1_end of the first sheet
FirstTable1End(g, starts) == IF starts[2] # NONE THEN starts[2] ELSE Len(g)
\* the end of df_sheet.iloc[table2_start:table2_end] of the first sheet
FirstTable2End(g, index, starts) ==
    IF index >= 1 /\ index <= 4 THEN find_table_end(g, starts[2]) ELSE Len(g)

\* is_first_sheet: table detection, the table chosen and its header; only the
\* chosen table is cut out of the sheet
LocateFirstSheet ==
    /\ pc = "sheet"
    /\ sheet.index = 0
    /\ \E starts \in {FirstSheetScan(grid, 0, NONE, NONE)} :
         IF starts[1] = NONE
         THEN located' = Outcome("pass_through", starts, <<NONE, NONE>>, 0, <<>>, NONE,
                                 [i \in 1..Len(grid) |-> i - 1], FALSE)
         ELSE \E choice \in {1} \cup (IF starts[2] # NONE THEN {2} ELSE {}) :
                \E ends \in {IF choice = 1
                              THEN <<FirstTable1End(grid, starts), NONE>>
                              ELSE <<NONE, FirstTable2End(grid, sheet.index, starts)>>} :
                    located' = FirstSheetTable(grid, starts, ends, choice,
                                 Region(grid, starts[choice], ends[choice]))
    /\ pc' = "located"
    /\ UNCHANGED <<grid, sheet, periodVars, renameVars, filterVars, pptVars, helperVars>>

\* table1_end of a later sheet
LaterTable1End(g, index, starts) ==
    IF index >= 1 /\ index <= 4
    THEN (IF starts[2] # NONE THEN Min(find_table_end(g, starts[1] + 1), starts[2])
          ELSE find_table_end(g, starts[1] + 1))
    ELSE (IF starts[2] # NONE THEN starts[2] ELSE Len(g))
\* table2_end of a later sheet
LaterTable2End(g, index, starts) ==
    IF index >= 1 /\ index <= 4 THEN find_table_end(g, starts[2] + 1) ELSE Len(g)

\* a later sheet: extract_tables, the table chosen, its first row as header
LocateLaterSheet ==
    /\ pc = "sheet"
    /\ sheet.index # 0
    /\ \E starts \in {extract_tables(grid,
                                     IF sheet.branch THEN "Sales in MT" ELSE "Sales in Tonage",
                                     "Sales in Value")} :
         IF starts[1] = NONE
         THEN located' = Outcome("not_located", starts, <<NONE, NONE>>, 0, <<>>, NONE,
                                 <<>>, FALSE)
         ELSE \E choice \in {1} \cup (IF starts[2] # NONE THEN {2} ELSE {}) :
                \E ends \in {<<LaterTable1End(grid, sheet.index, starts),
                                IF starts[2] # NONE
                                THEN LaterTable2End(grid, sheet.index, starts)
                                ELSE NONE>>} :
                    located' = LaterSheetTable(starts, ends, choice,
                                 Region(grid, starts[choice], ends[choice]))
    /\ pc' = "located"
    /\ UNCHANGED <<grid, sheet, periodVars, renameVars, filterVars, pptVars, helperVars>>

NextLocate == LocateFirstSheet \/ LocateLaterSheet
SpecLocate == InitLocate /\ [][NextLocate]_vars

InitRegions ==
    /\ pc = "sheet"
    /\ grid \in TerminatedGrids
    /\ sheet \in Sheets
    /\ located = <<>>
    /\ PeriodIdle /\ RenameIdle /\ FilterIdle /\ PptIdle /\ HelperIdle
SpecRegions == InitRegions /\ [][NextLocate]_vars

(***************************************************************************)
(* The master PPT: create_master_ppt_with_matplotlib walks the (label,     *)
(* data) entries and adds a chart slide for each entry it can configure.   *)
(* A data frame is read only for its column labels and for being empty.    *)
(***************************************************************************)
\* data is None
NoData == [none |-> TRUE, empty |-> TRUE, columns |-> <<>>]
\* a data frame with the given column labels
Frame(labels, empty) == [none |-> FALSE, empty |-> empty, columns |-> labels]
\* label.replace(",", "").replace(" ", "")
LabelClean(label) == replace(replace(label, ",", ""), " ", "")
\* What the if/elif chain over the label does with the names chart_data,
\* x_col and y_col: it assigns them, it leaves the iteration (continue), or
\* it ends without touching them (no branch ran: pass)
Assign(x_col, y_col) == [does |-> "assign", x_col |-> x_col, y_col |-> y_col]
Continue == [does |-> "continue", x_col |-> "", y_col |-> ""]
Pass == [does |-> "pass", x_col |-> "", y_col |-> ""]
\* the branch of the performance labels
ConfigPerformance(dim, cols) ==
    IF dim \in Range(cols) /\ "Performance" \in Range(cols) THEN Assign(dim, "Performance")
    ELSE IF Len(cols) >= 2 THEN Assign(cols[1], cols[2])
    ELSE Continue
\* the last branch (any other label), for data with the column x ("Month" or
\* "Period")
ConfigOther(label, cols, x) ==
    IF LabelClean(label) \in Range(cols) THEN Assign(x, LabelClean(label))
    ELSE IF "Value" \in Range(cols) THEN Assign(x, "Value")
    ELSE Pass
\* "Determine chart configuration based on label"
ChartConfig(label, cols) ==
    IF label = "Budget vs Actual"
    THEN (IF {"Month", "Value", "Metric"} \subseteq Range(cols)
          THEN Assign("Month", "Value") ELSE Continue)
    ELSE IF label = "Branch Performance" THEN ConfigPerformance("Branch", cols)
    ELSE IF label = "Product Performance" THEN ConfigPerformance("Product", cols)
    ELSE IF label \in {"Branch Monthwise", "Product Monthwise"}
    THEN (IF {"Month", "Value"} \subseteq Range(cols)
          THEN Assign("Month", "Value") ELSE Continue)
    ELSE IF contains(label, "YTD")
    THEN (IF "Period" \in Range(cols) THEN Assign("Period", replace(label, "YTD ", ""))
          ELSE IF Len(cols) >= 2 THEN Assign(cols[1], cols[2])
          ELSE Continue)
    ELSE IF "Month" \in Range(cols) THEN ConfigOther(label, cols, "Month")
    ELSE IF "Period" \in Range(cols) THEN ConfigOther(label, cols, "Period")
    ELSE Continue

\* The labels and the data frames of the entries
PptLabels == {"Budget vs Actual", "Branch Performance", "Product Performance",
              "Branch Monthwise", "YTD Act", "Act"}
PptData == {NoData,
            Frame(<<"Month", "Metric", "Value">>, TRUE),
            Frame(<<"Month", "Metric", "Value">>, FALSE),
            Frame(<<"Branch", "Performance">>, FALSE),
            Frame(<<"Sales in MT", "Month", "Act">>, FALSE),
            Frame(<<"Sales in MT", "Month", "Budget">>, FALSE),
            Frame(<<"Sales in MT", "Period", "Act">>, FALSE),
            Frame(<<"Sales in MT">>, FALSE)}
MaxEntries == 2
Entries == [label : PptLabels, data : PptData]

\* The local names before the loop: chart_data, x_col and y_col are not yet
\* bound (chart_data = 0); chart_data otherwise holds the position of the
\* entry whose data it refers to
InitPpt ==
    /\ pc = "ppt"
    /\ all_data \in UNION {[1..n -> Entries] : n \in 1..MaxEntries}
    /\ ppt = [i |-> 1, chart_data |-> 0, x_col |-> "", y_col |-> "", error |-> ""]
    /\ slides = <<>>
    /\ PeriodIdle /\ RenameIdle /\ FilterIdle /\ LocateIdle /\ HelperIdle

\* The chart slide an iteration adds: the entry it processes, and the data
\* and the columns create_matplotlib_chart is called with
Slide(entry, st) ==
    [entry |-> entry, label |-> all_data[entry].label,
     data |-> st.chart_data, x_col |-> st.x_col, y_col |-> st.y_col]

\* One iteration of "for label, data in all_data"
PptEntry ==
    /\ pc = "ppt"
    /\ ppt.i <= Len(all_data)
    /\ \E e \in {all_data[ppt.i]} :
         IF e.data.none \/ e.data.empty
         THEN /\ ppt' = [ppt EXCEPT !.i = @ + 1, !.error = ""]
              /\ slides' = slides
         ELSE \E cfg \in {ChartConfig(e.label, e.data.columns)} :
                IF cfg.does = "continue"
                THEN /\ ppt' = [ppt EXCEPT !.i = @ + 1, !.error = ""]
                     /\ slides' = slides
                ELSE IF cfg.does = "pass" /\ ppt.chart_data = 0
                THEN \* "if chart_data is None" reads an unbound name; the
                     \* except clause warns and goes on
                     /\ ppt' = [ppt EXCEPT !.i = @ + 1, !.error = "UnboundLocalError"]
                     /\ slides' = slides
                ELSE \E st \in {IF cfg.does = "assign"
                                THEN [ppt EXCEPT !.chart_data = ppt.i,
                                                 !.x_col = cfg.x_col, !.y_col = cfg.y_col]
                                ELSE ppt} :
                       /\ ppt' = [st EXCEPT !.i = @ + 1, !.error = ""]
                       /\ slides' = Append(slides, Slide(ppt.i, st))
    /\ pc' = "ppt"
    /\ UNCHANGED <<all_data, periodVars, renameVars, filterVars, locateVars, helperVars>>

\* master_ppt.save(...) after the last entry
PptSave ==
    /\ pc = "ppt"
    /\ ppt.i > Len(all_data)
    /\ pc' = "saved"
    /\ UNCHANGED <<pptVars, periodVars, renameVars, filterVars, locateVars, helperVars>>

NextPpt == PptEntry \/ PptSave
SpecPpt == InitPpt /\ [][NextPpt]_vars

(***************************************************************************)
(* The helpers: ensure_numeric_data and display_visualization, called with *)
(* a table that the caller goes on to use                                  *)
(***************************************************************************)
MaxFrameRows == 3
\* What a cell of the column y_col may hold
FrameCells == {Cell("10"), Cell("1,024"), Cell("0"), Cell("n/a"), NullCell}
\* The caller's tables: whether y_col is one of the columns, the index of
\* the rows and the cells of y_col
CallerFrames ==
    {[has_y_col |-> h, index |-> [i \in 1..Len(q) |-> i], y |-> q] :
       h \in BOOLEAN, q \in UNION {[1..n -> FrameCells] : n \in 0..MaxFrameRows}}

\* ensure_numeric_data(data, y_col): what it returns and what the table it
\* was called with holds afterwards.  data[y_col] = pd.to_numeric(...) and
\* data.dropna(subset=[y_col], inplace=True) write to the caller's object.
ensure_numeric_data(data) ==
    IF ~data.has_y_col THEN [data |-> data, returned |-> FALSE]
    ELSE The({[data |-> [has_y_col |-> TRUE,
                         index |-> [k \in 1..Len(kept) |-> data.index[kept[k]]],
                         y |-> [k \in 1..Len(kept) |-> to_numeric(data.y[kept[k]])]],
               returned |-> kept # <<>>] :
              kept \in {SelectSeq([k \in 1..Len(data.y) |-> k],
                                  LAMBDA k : ~to_numeric(data.y[k]).nan)}})
\* The state of a call: the table as the caller held it, the same object
\* after the call, and what the call returned or showed
Call(name, held, data, returned, shown) ==
    [call |-> name, held |-> held, data |-> data, returned |-> returned, shown |-> shown]

InitHelper ==
    /\ pc = "held"
    /\ \E frame \in CallerFrames : helper = Call("", frame, frame, FALSE, <<>>)
    /\ PeriodIdle /\ RenameIdle /\ FilterIdle /\ LocateIdle /\ PptIdle

\* ensure_numeric_data(data, y_col) called with the caller's table
EnsureNumericData ==
    /\ pc = "held"
    /\ \E r \in {ensure_numeric_data(helper.data)} :
         helper' = Call("ensure_numeric_data", helper.held, r.data, r.returned, <<>>)
    /\ pc' = "ensured"
    /\ UNCHANGED <<periodVars, renameVars, filterVars, locateVars, pptVars>>

\* display_visualization(tab, label, data, x_col, y_col, visual_type) up to
\* the chart: the rows it charts (shown).  The pie filter rebinds the local
\* name data and leaves the caller's object as ensure_numeric_data left it.
DisplayVisualization ==
    /\ pc = "held"
    /\ \E visual_type \in VisualTypes :
         IF helper.data.index = <<>>
         THEN helper' = Call("display_visualization", helper.held, helper.data, FALSE, <<>>)
         ELSE \E r \in {ensure_numeric_data(helper.data)} :
                helper' = Call("display_visualization", helper.held, r.data, r.returned,
                               IF ~r.returned THEN <<>>
                               ELSE IF visual_type = "Pie Chart"
                               THEN SelectSeq(r.data.y, LAMBDA c : c.v > 0)
                               ELSE r.data.y)
    /\ pc' = "displayed"
    /\ UNCHANGED <<periodVars, renameVars, filterVars, locateVars, pptVars>>

NextHelper == EnsureNumericData \/ DisplayVisualization
SpecHelper == InitHelper /\ [][NextHelper]_vars

(***************************************************************************)
(* Claims about the period ordering (SpecPeriod)                           *)
(***************************************************************************)
\* The (month, year2) of a generated period column
PeriodOf(col) == CHOOSE q \in Months \X Years : PeriodColumn(q[1], q[2]) = col
\* Calendar month number, January = 1
CalMonth(mon) == IndexOf(MonthNames, mon)
\* Fiscal month index with April = 0 ... March = 11
FiscalIndex0(mon) == (CalMonth(mon) + 8) % 12
\* fiscalYear = year2 for April..December, year2 - 1 for January..March
FiscalYearOf(q) == IF FiscalIndex0(q[1]) <= 8 THEN int(q[2]) ELSE int(q[2]) - 1
\* Months since year 0: the chronological position of a period
Chrono(q) == 12 * int(q[2]) + CalMonth(q[1])

\* C1 (as stated): the monthly view's sort key of (month, year2) is
\* (fiscalYear, monthIndex) with April = index 0 ... March = index 11, and the
\* keys order the periods chronologically, distinct periods having distinct keys.
C1_KeyWithIndexFromZero ==
    pc = "sorted" =>
        \A i \in 1..2 :
            skeys.monthly[i] = <<FiscalYearOf(PeriodOf(pcols[i])),
                                 FiscalIndex0(PeriodOf(pcols[i])[1])>>

\* C1 (amended): the monthly view's sort key of (month, year2) is
\* (fiscalYear, monthIndex) with April = index 1 ... March = index 12,
\* fiscalYear = year2 for April..December and year2 - 1 for January..March; the
\* keys compared lexicographically are a strict total order that is the
\* chronological order (Mar Y < Apr Y < ... < Dec Y < Jan Y+1 < ... < Mar Y+1),
\* and two distinct periods never get the same key.
C1_FiscalKeyStrictTotalOrder ==
    pc = "sorted" =>
        LET p1 == PeriodOf(pcols[1])
            p2 == PeriodOf(pcols[2])
            k1 == skeys.monthly[1]
            k2 == skeys.monthly[2]
        IN  /\ k1 = <<FiscalYearOf(p1), FiscalIndex0(p1[1]) + 1>>
            /\ k2 = <<FiscalYearOf(p2), FiscalIndex0(p2[1]) + 1>>
            /\ KeyLess(k1, k2) <=> Chrono(p1) < Chrono(p2)
            /\ (p1 # p2) => (k1 # k2)
            /\ (p1 # p2) => (KeyLess(k1, k2) \/ KeyLess(k2, k1))
            /\ ~(KeyLess(k1, k2) /\ KeyLess(k2, k1))

\* C1 witness: December of one year and January of the next have been keyed,
\* and December's key is the smaller
C1_Witness ==
    /\ pc = "sorted"
    /\ PeriodOf(pcols[1])[1] = "Dec" /\ PeriodOf(pcols[2])[1] = "Jan"
    /\ int(PeriodOf(pcols[2])[2]) = int(PeriodOf(pcols[1])[2]) + 1
    /\ KeyLess(skeys.monthly[1], skeys.monthly[2])

\* C10: the Budget-vs-Actual sort key, the monthly-metric sort key and the
\* monthwise sort key order any two periods the same way
C10_AllViewsOrderAlike ==
    pc = "sorted" =>
        /\ KeyLess(skeys.bva[1], skeys.bva[2]) <=> KeyLess(skeys.monthly[1], skeys.monthly[2])
        /\ KeyLess(skeys.monthwise[1], skeys.monthwise[2])
               <=> KeyLess(skeys.monthly[1], skeys.monthly[2])

(***************************************************************************)
(* Claims about rename_columns (SpecRename)                                *)
(***************************************************************************)
\* C2: canonicalization is idempotent: renaming the renamed labels again
\* returns them unchanged, element by element
C2_RenameIdempotent ==
    pc = "renamed" =>
        LET again == rename_columns(renamed)
        IN  again.raised = "" /\ again.renamed = renamed

\* The labels of the form 'YTD-YY-YY (range) Act' and their canonical form
YtdRanges == {"Apr to Jun", "Apr to Mar"}
YtdYears == {"24", "25", "26"}
YtdActForm == {<<"YTD-" \o q[1] \o "-" \o q[2] \o " (" \o q[3] \o ") Act",
                 "Act-YTD-" \o q[1] \o "-" \o q[2] \o " (" \o q[3] \o ")">> :
                   q \in YtdYears \X YtdYears \X YtdRanges}

\* C6: every label 'YTD-YY-YY (range) Act' is renamed 'Act-YTD-YY-YY (range)',
\* whatever labels precede it; 'YTD-25-26 (Apr to Jun) Act' becomes
\* 'Act-YTD-25-26 (Apr to Jun)'
C6_YtdActCanonical ==
    pc = "renamed" =>
        \A i \in 1..Len(columns) :
            \A f \in YtdActForm : columns[i] = f[1] => renamed[i] = f[2]

\* C6 witness: the label of the example was renamed after a monthly column
\* and a bare Gr had set and used the carried period
C6_Witness ==
    /\ pc = "renamed"
    /\ Len(columns) = 3
    /\ columns[1] = "Budget-Apr-24" /\ columns[2] = "Gr"
    /\ columns[3] = "YTD-25-26 (Apr to Jun) Act"
    /\ renamed[3] = "Act-YTD-25-26 (Apr to Jun)"

\* The column of the kept table whose label is lab came from this position
KeptFrom(lab) == deduped.kept[CHOOSE n \in 1..Len(deduped.kept) : deduped.labels[n] = lab]
\* The positions at which the renamed labels carry lab
Occurrences(lab) == {i \in 1..Len(renamed) : renamed[i] = lab}

\* C11: after the renaming and the duplicate removal the labels of the table
\* are pairwise distinct; every renamed label is still there, and its column
\* is the leftmost column that carried it, cells included (the kept position
\* is the least occurrence); the kept columns stand in their original order,
\* so a label that occurred once keeps its place among the others.
C11_FirstOccurrenceKept ==
    pc = "deduped" =>
        /\ \A m, n \in 1..Len(deduped.labels) :
               m # n => deduped.labels[m] # deduped.labels[n]
        /\ Range(deduped.labels) = Range(renamed)
        /\ \A n \in 1..Len(deduped.kept) :
               deduped.labels[n] = renamed[deduped.kept[n]]
        /\ \A lab \in Range(renamed) :
               \A i \in Occurrences(lab) : KeptFrom(lab) <= i
        /\ \A m, n \in 1..Len(deduped.kept) :
               m < n => deduped.kept[m] < deduped.kept[n]
\* a table in which a label occurs twice with a once-only label between the
\* two occurrences has been through the duplicate removal
C11_Witness ==
    /\ pc = "deduped"
    /\ deduped.warning
    /\ \E i, j, k \in 1..Len(renamed) :
           /\ i < j /\ j < k
           /\ renamed[i] = renamed[k]
           /\ Cardinality(Occurrences(renamed[j])) = 1

\* The monthly-metric labels: a metric, separators, a month token, separators
\* and a two-digit year, and nothing else
MetricNames == <<"budget", "ly", "act", "gr", "ach">>
MonthlyMetricRe == <<BOS, Alt(MetricNames), Cls(Separators, 1, INF), Alt(MonthNames),
                     Cls(Separators, 1, INF), Cls(DigitChars, 2, 2)>>
MonthlyMetricMatch(col) == Search(MonthlyMetricRe, TRUE, strip(col))
IsMonthlyMetric(col) ==
    LET mm == MonthlyMetricMatch(col)
    IN  mm # <<>> /\ MatchEnd(mm) = Len(strip(col)) + 1
\* The (month, year) of a monthly-metric label, the month capitalized
MonthlyPeriod(col) ==
    LET mm == MonthlyMetricMatch(col)
    IN  <<capitalize(Group(strip(col), mm, 4, 4)), Group(strip(col), mm, 6, 6)>>
\* A bare Gr or Ach label
IsBare(col) == lower(strip(col)) \in {"gr", "ach"}
BareMetric(col) == IF lower(strip(col)) = "gr" THEN "Gr" ELSE "Ach"

\* C12: in the renamed table a bare Gr or Ach carries a period only when the
\* column immediately before it is a monthly-metric column (as written in the
\* sheet or as renamed), and then it carries that column's month and year.
C12_BareInheritsFromPredecessor ==
    pc = "renamed" =>
        \A i \in 1..Len(columns) :
            (IsBare(columns[i]) /\ renamed[i] # columns[i]) =>
                /\ i > 1
                /\ \/ IsMonthlyMetric(columns[i - 1])
                   \/ IsMonthlyMetric(renamed[i - 1])
                /\ \E q \in {MonthlyPeriod(renamed[i - 1])} :
                       renamed[i] = BareMetric(columns[i]) \o " - " \o q[1] \o "-" \o q[2]

\* The metric of a monthly-metric label as the canonical labels write it
MetricWritten(col) ==
    LET name == lower(Group(strip(col), MonthlyMetricMatch(col), 2, 2))
    IN  CASE name = "budget" -> "Budget"
          [] name = "ly" -> "LY"
          [] name = "act" -> "Act"
          [] name = "gr" -> "Gr"
          [] name = "ach" -> "Ach"
\* 'Metric - Mon-YY' of a monthly-metric label
CanonicalMonthly(col) ==
    LET q == MonthlyPeriod(col)
    IN  MetricWritten(col) \o " - " \o q[1] \o "-" \o q[2]

\* C13: every monthly-metric label of the table, whatever its metric, its
\* separators and the letter case of its month, is renamed 'Metric - Mon-YY'
\* with the month capitalized.
C13_MonthlyCanonical ==
    pc = "renamed" =>
        \A i \in 1..Len(columns) :
            IsMonthlyMetric(columns[i]) => renamed[i] = CanonicalMonthly(columns[i])

\* A label the rules do not know: no YTD label, no monthly-metric label, no
\* bare Gr or Ach
IsYtdLabel(col) == contains(lower(col), "ytd")
Unrecognized(col) == ~IsYtdLabel(col) /\ ~IsMonthlyMetric(col) /\ ~IsBare(col)

\* C14: an unrecognized label is renamed to itself, whatever stands before it.
C14_UnrecognizedUnchanged ==
    pc = "renamed" =>
        \A i \in 1..Len(columns) :
            Unrecognized(columns[i]) => renamed[i] = columns[i]

(***************************************************************************)
(* Claims about filtering (SpecFilter)                                     *)
(***************************************************************************)
\* The period (month, two-digit year) a monthly label of FilterPool denotes,
\* <<>> for the labels that are not monthly
PoolPeriod(col) ==
    CASE col \in {"Budget-Apr-24", "Act-Apr-24", "act-apr-24", "Gr - Apr-24"} -> <<"Apr", "24">>
      [] col \in {"Budget-May-24", "Act-May-24"} -> <<"May", "24">>
      [] col = "Act-Jun-24" -> <<"Jun", "24">>
      [] col = "LY~May~25" -> <<"May", "25">>
      [] OTHER -> <<>>
PoolPeriods(cols) == {PoolPeriod(cols[i]) : i \in 1..Len(cols)} \ {<<>>}
Filtered == pc \in {"filtered", "plotted"}

\* C3: a monthly column is visible after filtering exactly when its month is
\* among the selected months and its year among the selected years; the
\* visible columns keep the table's order; and for the columns Budget-Apr-24,
\* Act-Apr-24, Budget-May-24 with month Apr and year 24 the visible columns
\* are Budget-Apr-24, Act-Apr-24.
C3_MonthlyVisibleIffSelected ==
    Filtered =>
      /\ \A i \in 2..Len(table.columns) :
            PoolPeriod(table.columns[i]) # <<>> =>
              (table.columns[i] \in Range(view.visual_cols)
                 <=> /\ \E m \in Range(view.selected_months) :
                          capitalize(m) = PoolPeriod(table.columns[i])[1]
                     /\ PoolPeriod(table.columns[i])[2] \in Range(view.selected_years))
      /\ view.visual_cols
           = SelectSeq(table.columns, LAMBDA col : col \in Range(view.visual_cols))
      /\ (/\ SubSeq(table.columns, 2, Len(table.columns))
               = <<"Budget-Apr-24", "Act-Apr-24", "Budget-May-24">>
          /\ view.selected_month = "Apr"
          /\ view.selected_year = "24")
         => view.visual_cols = <<"Budget-Apr-24", "Act-Apr-24">>

\* the example of C3 has been filtered: one month and one year were selected
\* and a monthly column of the table was left out
C3_Witness ==
    /\ pc = "filtered"
    /\ SubSeq(table.columns, 2, Len(table.columns))
         = <<"Budget-Apr-24", "Act-Apr-24", "Budget-May-24">>
    /\ view.selected_month = "Apr"
    /\ view.selected_year = "24"
    /\ view.visual_cols = <<"Budget-Apr-24", "Act-Apr-24">>

\* The fiscal years <<start, end>> of the YTD labels of FilterPool, <<>> for the
\* labels that are not YTD
PoolYtdRange(col) ==
    IF col = "Act-YTD-24-25 (Apr to Jun)" THEN <<"24", "25">> ELSE <<>>

\* C15: a YTD column is visible after filtering exactly when the end year of
\* its range is among the selected years, or no year is selected; the
\* selected months and the start year of the range play no part.
C15_YtdVisibleIffEndYearSelected ==
    Filtered =>
        \A i \in 2..Len(table.columns) :
            PoolYtdRange(table.columns[i]) # <<>> =>
                (table.columns[i] \in Range(view.visual_cols)
                    <=> \/ view.selected_years = <<>>
                        \/ PoolYtdRange(table.columns[i])[2] \in Range(view.selected_years))

\* C4: with the select-all sentinel on every facet no row and no column of
\* the table is removed.
C4_SelectAllIsNoFilter ==
    (/\ Filtered
     /\ view.selected_month = SELECT_ALL
     /\ view.selected_year = SELECT_ALL
     /\ view.selected_dim \in {SELECT_ALL, ""})
    => /\ view.rows = [i \in 1..Len(table.lead) |-> i]
       /\ view.display_cols = table.columns

\* C5: the Budget-vs-Actual view retains a period exactly when it occurs both
\* among the selected Budget monthly columns and among the selected Act
\* monthly columns, and only columns of retained periods are charted.
C5_CommonPeriodsRetained ==
    pc = "plotted" =>
      /\ PoolPeriods(bva.selected_budget_cols) \cup PoolPeriods(bva.selected_act_cols)
           = PoolPeriods(bva.budget_cols) \cap PoolPeriods(bva.act_cols)
      /\ PoolPeriods(bva.selected_budget_cols) = PoolPeriods(bva.selected_act_cols)

\* The stoplist of the claim's example, matched as the views match theirs
\* (substring, letter case ignored)
Stoplist == {"total sales"}
OnStoplist(value) == \E term \in Stoplist : contains(lower(value), term)
DimensionList == IF table.kind = "branch" THEN facets.branch_list ELSE facets.product_list

\* C7: the dimension list offered for filtering is the sorted set of the
\* distinct, trimmed, non-null leading values that are not on the stoplist.
C7_DimensionListDropsStoplist ==
    (pc # "table" /\ table.kind # "other") =>
      DimensionList
        = sorted({v \in {strip(table.lead[i].s) :
                           i \in {j \in 1..Len(table.lead) : ~table.lead[j].na}} :
                    ~OnStoplist(v)})

(***************************************************************************)
(* Claims about table location and header resolution (SpecLocate)          *)
(***************************************************************************)
\* No row of the sheet matches an anchor of the first sheet or holds a table
\* header of the later sheets
NoAnchorRow ==
    \A i \in 1..Len(grid) :
        /\ ~RowFacts[grid[i]].mt
        /\ ~RowFacts[grid[i]].value
        /\ \A header \in {"sales in mt", "sales in tonage", "sales in value"} :
              ~contains(RowFacts[grid[i]].lower, header)

\* C8: a sheet with no anchor row is passed through whole, on every sheet
\* position: all its rows are handed on, as no table, without renaming.
C8_NoAnchorPassesThrough ==
    (pc = "located" /\ NoAnchorRow) =>
      /\ located.outcome = "pass_through"
      /\ located.handed = [i \in 1..Len(grid) |-> i - 1]
      /\ ~located.canonicalized

\* C9: a header row index h returned for a region of n >= 1 rows satisfies
\* 0 <= h <= min(5, n) - 1; a row at index 5 or beyond is never the header.
C9_HeaderWithinFirstFive ==
    (pc = "located" /\ located.header_row_idx # NONE) =>
      /\ Len(located.region) >= 1
      /\ 0 <= located.header_row_idx
      /\ located.header_row_idx <= Min(5, Len(located.region)) - 1
      /\ located.header_row_idx < 5

\* the header was found in the last row the scan reads, in a region that has
\* a row with a metric keyword beyond it
C9_Witness ==
    /\ pc = "located"
    /\ sheet.index = 0
    /\ located.header_row_idx = 4
    /\ Len(located.region) >= 6
    /\ RowFacts[grid[located.region[6] + 1]].keyword

\* C17: on every sheet position a table 2 is located only when a table 1 has
\* been located at an earlier row: no table 2 without table 1, and table 2
\* starts after table 1's start.
C17_SecondAnchorAfterFirst ==
    (pc = "located" /\ located.table2_start # NONE) =>
        /\ located.table1_start # NONE
        /\ located.table1_start < located.table2_start
(***************************************************************************)
(* Claims about the table regions (SpecRegions)                            *)
(***************************************************************************)
\* The tables whose region the run has cut out, as <<start, end>>
Table1Cut == located.table1_start # NONE /\ located.table1_end # NONE
Table2Cut == located.table2_start # NONE /\ located.table2_end # NONE

\* C18: on every sheet position the regions cut out for table 1 and table 2
\* are non-empty half-open row intervals inside the sheet, in row order and
\* without a common row: start1 < end1 <= start2 < end2 <= rows, and
\* start1 < end1 <= rows when only table 1 is located.
C18_RegionsDisjointInOrder ==
    pc = "located" =>
        /\ Table1Cut => /\ located.table1_start < located.table1_end
                        /\ located.table1_end <= Len(grid)
        /\ Table2Cut => /\ located.table2_start < located.table2_end
                        /\ located.table2_end <= Len(grid)
        /\ (Table1Cut /\ located.table2_start # NONE)
              => located.table1_end <= located.table2_start

\* The rows after start that hold a terminator keyword
TerminatorsAfter(start) ==
    {i \in (start + 1)..(Len(grid) - 1) : RowFacts[grid[i + 1]].total}
\* The row after the first terminator row following start, or the start of
\* the next anchor (NONE when there is none), or the end of the sheet,
\* whichever comes first
ExpectedEnd(start, next) ==
    LET byTotal == IF TerminatorsAfter(start) = {} THEN Len(grid)
                   ELSE 1 + CHOOSE i \in TerminatorsAfter(start) :
                                \A j \in TerminatorsAfter(start) : i <= j
    IN  IF next # NONE /\ next > start THEN Min(byTotal, next) ELSE byTotal

\* C19: on every sheet position the region of each located table ends at the
\* row after the first terminator row following its start, at the start of
\* the next anchor or at the end of the sheet, whichever comes first.
C19_RegionEndsAtEarliest ==
    pc = "located" =>
        /\ Table1Cut => located.table1_end
                           = ExpectedEnd(located.table1_start, located.table2_start)
        /\ Table2Cut => located.table2_end = ExpectedEnd(located.table2_start, NONE)

(***************************************************************************)
(* Claims about the views (SpecViews)                                      *)
(***************************************************************************)
\* C16: whatever a view charts was read from a row the branch selection has
\* kept and from a column the month and year selection has kept, in the
\* Budget-vs-Actual view and in the monthly, ranking and monthwise views.
C16_ViewsReadFilteredTable ==
    /\ pc = "plotted" =>
          /\ Range(bva.chart_rows) \subseteq Range(view.rows)
          /\ Range(bva.selected_budget_cols) \cup Range(bva.selected_act_cols)
                \subseteq Range(view.visual_cols)
    /\ pc = "charted" =>
          \A e \in chart.entries :
              /\ e.row \in Range(view.rows)
              /\ e.column \in Range(view.visual_cols)

\* The charted columns of the Budget-vs-Actual view that make up the group
\* of a month and a metric
GroupCols(e) ==
    SelectSeq(bva.selected_budget_cols \o bva.selected_act_cols,
              LAMBDA col : BvaKey(col) = <<e.Month, e.Metric>>)
\* The sum of a column's numbers over the rows, cells that are no number left out
RECURSIVE SumOfNumbers(_, _)
SumOfNumbers(rows, col) ==
    IF rows = <<>> THEN 0
    ELSE (IF to_numeric(table.cells[Head(rows)][IndexOf(table.columns, col) - 1]).nan
          THEN 0
          ELSE to_numeric(table.cells[Head(rows)][IndexOf(table.columns, col) - 1]).v)
         + SumOfNumbers(Tail(rows), col)

\* C20: the Budget-vs-Actual bar and line charts report for every month and
\* metric the sum of the metric's column over all rows the dimension filter
\* has kept, leaving out only the cells that are no number.
C20_SumLeavesOutNullCellsOnly ==
    (pc = "plotted" /\ bva.outcome = "chart") =>
        \A e \in bva.agg :
            /\ Len(GroupCols(e)) = 1
            /\ e.Value = SumOfNumbers(view.rows, GroupCols(e)[1])

(***************************************************************************)
(* Claims about rename_columns as a whole                                  *)
(***************************************************************************)
\* C30: rename_columns is total and position-preserving: for every list of
\* column labels, in any letter case, it raises no error and returns a list
\* of the same length.
C30_RenameTotal ==
    pc \in {"renamed", "crashed", "deduped"} =>
        /\ raised = ""
        /\ Len(renamed) = Len(columns)

KeywordRows ==
    {i \in 0..(Len(located.region) - 1) :
        /\ i < 5
        /\ RowFacts[grid[located.region[i + 1] + 1]].keyword}
\* The least of a non-empty set of numbers
Least(S) == CHOOSE i \in S : \A j \in S : i <= j

\* C25: if none of the first min(5, n) rows of a table region contains a
\* metric keyword, header resolution fails and the caller receives the
\* region's rows unchanged and unlabelled for display only; nothing is
\* canonicalized.
C25_NoKeywordGivesRawBlock ==
    (pc = "located" /\ located.region # <<>> /\ KeywordRows = {}) =>
        /\ located.outcome = "header_not_found"
        /\ located.header_row_idx = NONE
        /\ located.handed = located.region
        /\ ~located.canonicalized

\* C28: on any sheet the header row of a table is the first of the region's
\* first five rows that contains a metric keyword, and the data body is
\* exactly the region's rows after that row, in order.
C28_HeaderIsFirstKeywordRow ==
    (pc = "located" /\ located.region # <<>> /\ located.header_row_idx # NONE) =>
        /\ KeywordRows # {}
        /\ located.header_row_idx = Least(KeywordRows)
        /\ located.handed = SubSeq(located.region, located.header_row_idx + 2,
                                   Len(located.region))

(***************************************************************************)
(* Claims about the filtered table (SpecFilter)                            *)
(***************************************************************************)
\* C24: when the filter selection yields zero rows or zero value columns the
\* filtered table is an explicit empty result; a partial table (the leading
\* dimension column alone, or a header with no rows) is never shown as a
\* populated result.
C24_EmptySelectionShowsNoTable ==
    (pc \in {"filtered", "plotted"} /\ (view.rows = <<>> \/ view.visual_cols = <<>>)) =>
        view.display_cols = <<>>

(***************************************************************************)
(* Claims about the order of the Budget-vs-Actual series (SpecPeriod)      *)
(***************************************************************************)
\* C27: the Budget-vs-Actual series is emitted in chronological order: of
\* any two periods the calendar-earlier one gets the smaller sort key and so
\* comes first, January..March of year Y+1 after December of Y and before
\* April of Y+1.
C27_BvaSeriesChronological ==
    pc = "sorted" =>
        (Chrono(PeriodOf(pcols[1])) < Chrono(PeriodOf(pcols[2]))
            => KeyLess(skeys.bva[1], skeys.bva[2]))

(***************************************************************************)
(* Claims about the performance rankings (SpecRank)                        *)
(***************************************************************************)
\* The rows of table_df a ranking is made of: those of a dimension value
\* (no total row) that hold a number in the YTD Act column
RankedRows ==
    {r \in 1..Len(table.lead) :
        /\ ~table.lead[r].na
        /\ ~contains(lower(table.lead[r].s), "total")
        /\ ~to_numeric(table.cells[r][1]).nan}
\* The number a ranked row holds
RankValue(r) == to_numeric(table.cells[r][1]).v
\* Whether a performance view has charted a ranking
Ranked == pc = "charted" /\ chart.outcome = "chart"

\* C21: a performance ranking contains one row per dimension value with a
\* numeric value, ordered by value descending, and two rows of equal value
\* stand in the order they have in the original table.
C21_RankingDescendingStable ==
    Ranked =>
        /\ Range(chart.ranking) = RankedRows
        /\ Len(chart.ranking) = Cardinality(RankedRows)
        /\ \A i, j \in 1..Len(chart.ranking) :
              i < j => \/ RankValue(chart.ranking[i]) > RankValue(chart.ranking[j])
                       \/ /\ RankValue(chart.ranking[i]) = RankValue(chart.ranking[j])
                          /\ chart.ranking[i] < chart.ranking[j]

\* C22: Top-5 is the first min(5, n) rows and Bottom-5 the last min(5, n)
\* rows of the sorted ranking of n rows, in ranking order; with n < 5 both
\* hold all n rows, there are no padding rows, and no row outside the
\* ranking appears in either.
C22_TopAndBottomFive ==
    Ranked =>
        LET n == Len(chart.ranking)
            k == IF n < 5 THEN n ELSE 5
        IN  /\ Len(chart.top_5) = k
            /\ Len(chart.bottom_5) = k
            /\ \A i \in 1..k : chart.top_5[i] = chart.ranking[i]
            /\ \A i \in 1..k : chart.bottom_5[i] = chart.ranking[n - k + i]
            /\ n < 5 => chart.top_5 = chart.ranking /\ chart.bottom_5 = chart.ranking
            /\ Range(chart.top_5) \cup Range(chart.bottom_5) \subseteq Range(chart.ranking)

\* C22 witness: a ranking of more than five rows has been charted, so that
\* neither list is the whole ranking and the two lists differ
C22_Witness ==
    /\ Ranked
    /\ Len(chart.ranking) > 5
    /\ chart.top_5 # chart.bottom_5
    /\ Len(chart.top_5) = 5 /\ Len(chart.bottom_5) = 5

\* C23: every view ends either with a populated result or with no result
\* and a reason, never with an empty result table, and no view ends the run
\* so that the views after it are not computed.
C23_ViewEndsInResultOrReason ==
    /\ ~(pc = "crashed" /\ chart # <<>>)
    /\ pc = "charted" =>
          \/ chart.outcome = "chart" /\ chart.entries # {}
          \/ /\ chart.outcome \in {"not_branch", "not_product", "no_columns",
                                   "no_data", "no_numeric_data"}
             /\ chart.entries = {}
\* C23 without its last clause: the views that return
C23_ReturnedResultOrReason ==
    pc = "charted" =>
       \/ chart.outcome = "chart" /\ chart.entries # {}
       \/ /\ chart.outcome \in {"not_branch", "not_product", "no_columns",
                                "no_data", "no_numeric_data"}
          /\ chart.entries = {}

\* The rows of the caller's table are the rows it had, and every cell of
\* y_col still reads what it read
SameTable(before, after) ==
    /\ after.index = before.index
    /\ \A k \in 1..Len(before.y) :
          \/ after.y[k] = before.y[k]
          \/ ~to_numeric(before.y[k]).nan /\ after.y[k] = to_numeric(before.y[k])
C26_NumericTableKeepsValues ==
    (/\ pc \in {"ensured", "displayed"}
     /\ \A k \in 1..Len(helper.held.y) : ~to_numeric(helper.held.y[k]).nan)
    => SameTable(helper.held, helper.data)
\* C26 for table_df and the selection: no view writes to them
C26_ViewsKeepTable == [][pc = "filtered" => table' = table /\ view' = view]_vars

====
